---- MODULE Spec2Model ----
(***************************************************************************)
(* A model of the goftp client (src/ftp.go, second revision of the file,   *)
(* lines 317..698): the control connection's command/reply cycle, the      *)
(* Serv-U tolerant reply reader, passive-mode negotiation, the data        *)
(* connection and the operations built on them.                            *)
(*                                                                         *)
(* Text is modelled as sequences of one-character strings.  The server is  *)
(* the environment: whenever the client writes a command the server picks  *)
(* one reply (one or several lines) out of Replies(cmd) and queues its     *)
(* lines on the control connection, or hangs up.                           *)
(*                                                                         *)
(* An operation is one action.  Its helpers are operators over the         *)
(* connection record `s`; a helper that involves a choice of the           *)
(* environment yields the SET of its possible outcomes.                    *)
(***************************************************************************)
EXTENDS Integers, Sequences, FiniteSets, TLC

VARIABLES
    ctrl,   \* control connection: "none" | "open" | "closed"
    have,   \* the caller holds a *ServerConn
    peer,   \* the server's end of the control connection: "up" | "down"
    inq,    \* lines the server has sent that the client has not read yet
    xfer,   \* server side of a transfer: [st: "none"|"active"|"done", n]
    data,   \* the data connection of the last transfer: "none"|"open"|"closed"
    resp,   \* the *response returned by Retr: [live, nread, eof, nstatus]
    halt,   \* "run" | "blocked" (a read that never returns) | "panic"
    nops,   \* operations called on the session so far
    ret,    \* what the last call did and returned (history)
    app     \* a function of the package applied on its own: [fn, arg, val]

vars == <<ctrl, have, peer, inq, xfer, data, resp, halt, nops, ret, app>>

(***************************************************************************)
(* Bounds of the model.                                                    *)
(***************************************************************************)
MaxOps == 2     \* operations per session after Connect
MaxData == 1    \* chunks (lines) the server sends on one data connection

(***************************************************************************)
(* Status codes.                                                           *)
(***************************************************************************)
StatusAlreadyOpen == 125
StatusAboutToSend == 150
StatusCommandOK == 200
StatusReady == 220
StatusClosingDataConnection == 226
StatusPassiveMode == 227
StatusExtendedPassiveMode == 229
StatusLoggedIn == 230
StatusRequestedFileActionOK == 250
StatusPathCreated == 257
StatusUserOK == 331
StatusRequestFilePending == 350

(***************************************************************************)
(* Text.                                                                   *)
(***************************************************************************)
DigitChar == <<"0", "1", "2", "3", "4", "5", "6", "7", "8", "9">>

\* The characters of a string.
Chars(str) == [k \in 1..Len(str) |-> SubSeq(str, k, k)]

IsDigit(c) == \E i \in 1..10 : DigitChar[i] = c

DigitVal(c) == (CHOOSE i \in 1..10 : DigitChar[i] = c) - 1

RECURSIVE DigitsVal(_)
DigitsVal(ds) ==
    IF ds = <<>> THEN 0
    ELSE DigitsVal(SubSeq(ds, 1, Len(ds) - 1)) * 10 + DigitVal(ds[Len(ds)])

\* strconv.Atoi: an optional sign, then one or more decimal digits; [n, ok].
Atoi(str) ==
    LET signed == str # <<>> /\ str[1] \in {"+", "-"}
        ds == IF signed THEN Tail(str) ELSE str
    IN  IF ds = <<>> \/ \E i \in 1..Len(ds) : ~IsDigit(ds[i])
        THEN [n |-> 0, ok |-> FALSE]
        ELSE [n |-> IF signed /\ str[1] = "-" THEN 0 - DigitsVal(ds) ELSE DigitsVal(ds),
              ok |-> TRUE]

\* strings.HasPrefix
HasPrefix(str, pre) ==
    Len(str) >= Len(pre) /\ SubSeq(str, 1, Len(pre)) = pre

\* strings.Index for a one-byte separator: 0-based index, -1 when absent.
Index(str, c) ==
    IF \E i \in 1..Len(str) : str[i] = c
    THEN (CHOOSE i \in 1..Len(str) : str[i] = c /\ \A j \in 1..(i - 1) : str[j] # c) - 1
    ELSE 0 - 1

\* strings.LastIndex for a one-byte separator.
LastIndex(str, c) ==
    IF \E i \in 1..Len(str) : str[i] = c
    THEN (CHOOSE i \in 1..Len(str) : str[i] = c /\ \A j \in (i + 1)..Len(str) : str[j] # c) - 1
    ELSE 0 - 1

\* strings.Split(str, ","): always at least one element.
RECURSIVE Split(_, _)
Split(str, c) ==
    LET i == Index(str, c)
    IN  IF i = 0 - 1 THEN <<str>>
        ELSE <<SubSeq(str, 1, i)>> \o Split(SubSeq(str, i + 2, Len(str)), c)

\* The three digits of a status code.
Digits3(code) ==
    <<DigitChar[(code \div 100) + 1], DigitChar[((code \div 10) % 10) + 1],
      DigitChar[(code % 10) + 1]>>

(***************************************************************************)
(* Errors.                                                                 *)
(***************************************************************************)
Err(kind, code, msg) == [kind |-> kind, code |-> code, msg |-> msg]

NoErr == Err("nil", 0, <<>>)

\* Not an error of the program: the value threaded through a call that no
\* longer runs (blocked in a read, or panicked).
Halted == Err("halted", 0, <<>>)

(***************************************************************************)
(* parseCodeLine: the status-line codec.                                   *)
(***************************************************************************)
\* A faulty matchCode that takes every expectCode in 1..999 as an exact code
\* (C12 tells it apart).
matchCodeExact(code, continued, message, expectCode) ==
    [code |-> code, continued |-> continued, message |-> message,
     err |-> IF 1 <= expectCode /\ expectCode < 1000 /\ code # expectCode
             THEN Err("unexpected", code, message)
             ELSE NoErr]

\* The expectCode test that closes parseCodeLine.
matchCode(code, continued, message, expectCode) ==
    [code |-> code, continued |-> continued, message |-> message,
     err |-> IF \/ 1 <= expectCode /\ expectCode < 10 /\ code \div 100 # expectCode
                \/ 10 <= expectCode /\ expectCode < 100 /\ code \div 10 # expectCode
                \/ 100 <= expectCode /\ expectCode < 1000 /\ code # expectCode
             THEN Err("unexpected", code, message)
             ELSE NoErr]

\* parseCodeLine once code, err = strconv.Atoi(line[0:3]) is known as `a`.
parseCode(line, expectCode, a) ==
    IF ~a.ok \/ a.n < 100
    THEN [code |-> a.n, continued |-> line[4] = "-", message |-> <<>>,
          err |-> Err("invalidcode", 0, line)]
    ELSE matchCode(a.n, line[4] = "-", SubSeq(line, 5, Len(line)), expectCode)

\* A faulty parseCodeLine that does not look at the 4th character (C11 tells
\* it apart).
parseCodeLineAnySep(line, expectCode) ==
    IF Len(line) < 4
    THEN [code |-> 0, continued |-> FALSE, message |-> <<>>,
          err |-> Err("short", 0, line)]
    ELSE parseCode(line, expectCode, Atoi(SubSeq(line, 1, 3)))

parseCodeLine(line, expectCode) ==
    IF Len(line) < 4 \/ (line[4] # " " /\ line[4] # "-")
    THEN [code |-> 0, continued |-> FALSE, message |-> <<>>,
          err |-> Err("short", 0, line)]
    ELSE parseCode(line, expectCode, Atoi(SubSeq(line, 1, 3)))

(***************************************************************************)
(* The connection record threaded through one call, and its history.       *)
(***************************************************************************)
\* One step of a call: ev "write" | "line" | "decode" | "dial" | "dread" | "copy" |
\* "dclose" | "cclose"; cmd, n: the command written, or the command that the
\* line read answers; k: how it went.
Ev(ev, cmd, n, code, k) ==
    [ev |-> ev, cmd |-> cmd, n |-> n, code |-> code, k |-> k, msg |-> <<>>]

Log(s, e) == [s EXCEPT !.trace = Append(@, e)]

IOErr == Err("io", 0, <<>>)

(***************************************************************************)
(* The server.  A reply is the lines it sends for one command; `drop`: it  *)
(* closes the control connection after them; `go`: it starts the transfer. *)
(***************************************************************************)
StatusLine(code, sep, msg) == Digits3(code) \o <<sep>> \o msg

Reply(lines, drop, go) == [lines |-> lines, drop |-> drop, go |-> go]

Single(code, msg) == Reply(<<StatusLine(code, " ", msg)>>, FALSE, FALSE)

Multi(code, msg) ==
    Reply(<<StatusLine(code, "-", <<>>), StatusLine(code, " ", msg)>>, FALSE, FALSE)

\* "226-Maximum disk quota ..." / "    Used disk quota ..." / "226 Transfer complete."
ServU(code) ==
    Reply(<<StatusLine(code, "-", <<"M">>), <<" ", " ", "U">>,
            StatusLine(code, " ", <<"T">>)>>, FALSE, FALSE)

Malformed == Reply(<< <<"o", "k">> >>, FALSE, FALSE)

Hangup == Reply(<<>>, TRUE, FALSE)

Go(r) == [r EXCEPT !.go = TRUE]

\* The server sends the reply and closes the control connection.
Closing(r) == [r EXCEPT !.drop = TRUE]

TransferCmds == {"LIST", "RETR", "STOR"}

PasvMsg == <<"(", "1", ",", "2", ")">>

PwdMsg == <<"\"", "/", "\"">>

\* What the server may answer to a command ("greet": on connecting, "done":
\* when a transfer ends).
Replies(cmd) ==
    LET refuse == {Single(550, <<>>), Malformed, Hangup}
        usual(code, msg) == {Single(code, msg), Multi(code, msg)} \cup refuse
    IN  CASE cmd = "greet" -> usual(StatusReady, <<>>) \cup {ServU(StatusReady)}
          [] cmd = "USER" -> usual(StatusUserOK, <<>>)
          [] cmd = "PASS" -> usual(StatusLoggedIn, <<>>)
          [] cmd = "PASV" -> usual(StatusPassiveMode, PasvMsg)
                               \cup {Single(StatusPassiveMode, <<>>),
                                     Closing(Multi(StatusPassiveMode, PasvMsg))}
          [] cmd \in TransferCmds ->
                {Go(Single(StatusAboutToSend, <<>>)), Go(Multi(StatusAboutToSend, <<>>)),
                 Go(Single(StatusAlreadyOpen, <<>>))} \cup refuse
          [] cmd = "done" -> usual(StatusClosingDataConnection, <<>>)
                               \cup {ServU(StatusClosingDataConnection),
                                     Single(StatusPassiveMode, <<>>)}
          [] cmd \in {"CWD", "CDUP", "DELE", "RMD", "RNTO"} ->
                usual(StatusRequestedFileActionOK, <<>>)
          [] cmd = "RNFR" -> usual(StatusRequestFilePending, <<>>)
          [] cmd \in {"MKD", "PWD"} ->
                usual(StatusPathCreated, PwdMsg) \cup {Single(StatusLoggedIn, <<>>)}
          [] cmd = "NOOP" -> usual(StatusCommandOK, <<>>)
          [] OTHER -> {Single(221, <<>>)}

\* The server queues the lines of `r`, each marked with the command it answers
\* (`n`: the command's number within the call, 0 for an earlier call).
ServerSend(s, r, cmd, n) ==
    [s EXCEPT
        !.inq = @ \o [i \in 1..Len(r.lines) |-> [text |-> r.lines[i], cmd |-> cmd, n |-> n]],
        !.peer = IF r.drop THEN "down" ELSE @,
        !.xfer = IF r.go THEN [st |-> "active", n |-> n] ELSE @]

\* The server ends the transfer it started: it sends the completion reply.
ServerDone(s) ==
    IF s.xfer.st = "active" /\ s.peer = "up"
    THEN {[ServerSend(s, r, "done", s.xfer.n) EXCEPT !.xfer.st = "done"]
            : r \in Replies("done")}
    ELSE {s}

(***************************************************************************)
(* textproto.Conn: Cmd writes one command line, ReadLine reads one line.   *)
(***************************************************************************)
Cmd(s, name) ==
    IF s.halt # "run" THEN {[s |-> s, err |-> Halted]}
    ELSE IF s.ctrl # "open"
    THEN {[s |-> Log(s, Ev("write", name, 0, 0, "fail")), err |-> IOErr]}
    ELSE
      LET id == s.nsent + 1
          sent == [Log(s, Ev("write", name, id, 0, "ok")) EXCEPT !.nsent = id]
      IN  IF s.peer = "down"
          THEN {[s |-> sent, err |-> NoErr],
                [s |-> Log(s, Ev("write", name, 0, 0, "fail")), err |-> IOErr]}
          ELSE {[s |-> ServerSend(sent, r, name, id), err |-> NoErr] : r \in Replies(name)}

ReadLine(s) ==
    IF s.halt # "run"
    THEN [s |-> s, line |-> <<>>, cmd |-> "", n |-> 0, err |-> Halted]
    ELSE IF s.inq # <<>>
    THEN LET h == Head(s.inq)
         IN  [s |-> Log([s EXCEPT !.inq = Tail(@)], Ev("line", h.cmd, h.n, 0, "ok")),
              line |-> h.text, cmd |-> h.cmd, n |-> h.n, err |-> NoErr]
    ELSE IF s.peer = "down" \/ s.ctrl # "open"
    THEN [s |-> Log(s, Ev("line", "", 0, 0, "fail")),
          line |-> <<>>, cmd |-> "", n |-> 0, err |-> IOErr]
    ELSE [s |-> [s EXCEPT !.halt = "blocked"],
          line |-> <<>>, cmd |-> "", n |-> 0, err |-> Halted]

(***************************************************************************)
(* The reply reader.                                                       *)
(***************************************************************************)
\* The line read as `r` was decoded to `p`.
Decoded(r, p) ==
    [s |-> Log(r.s, [Ev("decode", r.cmd, r.n, p.code, p.err.kind)
                       EXCEPT !.msg = p.message]),
     code |-> p.code, continued |-> p.continued, message |-> p.message,
     err |-> p.err]

ReadFailed(r) ==
    [s |-> r.s, code |-> 0, continued |-> FALSE, message |-> <<>>, err |-> r.err]

\* MyreadCodeLine from its last ReadLine on.
DecodeLine(r, expectCode) ==
    IF r.err # NoErr THEN ReadFailed(r)
    ELSE Decoded(r, parseCodeLine(r.line, expectCode))

\* A faulty MyreadCodeLineFrom: one further line read instead of two (C4
\* tells it apart).
MyreadCodeLineFromOneMore(r1, expectCode) ==
    IF r1.err = NoErr /\ HasPrefix(r1.line, <<" ", " ">>)
    THEN DecodeLine(ReadLine(r1.s), expectCode)
    ELSE DecodeLine(r1, expectCode)

\* A faulty MyreadCodeLineFrom that returns when the second ReadLine fails
\* (C24 tells it apart).
MyreadCodeLineFromChecked(r1, expectCode) ==
    IF r1.err = NoErr /\ HasPrefix(r1.line, <<" ", " ">>)
    THEN IF ReadLine(r1.s).err # NoErr THEN ReadFailed(ReadLine(r1.s))
         ELSE DecodeLine(ReadLine(ReadLine(r1.s).s), expectCode)
    ELSE DecodeLine(r1, expectCode)

\* MyreadCodeLine after its first ReadLine, `r1`.  In the indented case the
\* next line is read with its error dropped (line, _ = r.ReadLine()), and
\* the one after it is the line decoded.
MyreadCodeLineFrom(r1, expectCode) ==
    IF r1.err = NoErr /\ HasPrefix(r1.line, <<" ", " ">>)
    THEN DecodeLine(ReadLine(ReadLine(r1.s).s), expectCode)
    ELSE DecodeLine(r1, expectCode)

MyreadCodeLine(s, expectCode) == MyreadCodeLineFrom(ReadLine(s), expectCode)

\* MyReadCodeLine returns what MyreadCodeLine did, without `continued`.
DropContinued(r) ==
    [s |-> r.s, code |-> r.code, message |-> r.message, err |-> r.err]

MyReadCodeLine(s, expectCode) == DropContinued(MyreadCodeLine(s, expectCode))

(***************************************************************************)
(* cmd: the command cycle.                                                 *)
(***************************************************************************)
\* A faulty cmdLoop that reads on after 230 whatever code is expected (C25
\* tells it apart).
RECURSIVE cmdLoopAnyExpected(_, _)
cmdLoopAnyExpected(r, expected) ==
    IF r.code = StatusLoggedIn
    THEN cmdLoopAnyExpected(MyReadCodeLine(r.s, expected), expected)
    ELSE r

RECURSIVE cmdLoop(_, _)
cmdLoop(r, expected) ==
    IF r.code = StatusLoggedIn /\ expected = StatusPathCreated
    THEN cmdLoop(MyReadCodeLine(r.s, expected), expected)
    ELSE r

\* A faulty cmd, for which an unexpected code is fatal to the session: it
\* closes the control connection (C27 tells it apart).
cmdFatal(s, expected, name) ==
    { IF w.err # NoErr
      THEN [s |-> w.s, code |-> 0, message |-> <<>>, err |-> w.err]
      ELSE LET r == cmdLoop(MyReadCodeLine(w.s, expected), expected)
           IN  IF r.err.kind = "unexpected" THEN [r EXCEPT !.s.ctrl = "closed"] ELSE r
      : w \in Cmd(s, name) }

cmd(s, expected, name) ==
    { IF w.err # NoErr
      THEN [s |-> w.s, code |-> 0, message |-> <<>>, err |-> w.err]
      ELSE cmdLoop(MyReadCodeLine(w.s, expected), expected)
      : w \in Cmd(s, name) }

(***************************************************************************)
(* Passive mode and the data connection.                                   *)
(***************************************************************************)
Panic(s) == [s EXCEPT !.halt = "panic"]

\* pasv from strings.Split on: `parts` are the elements between the parentheses.
pasvPort(s, parts) ==
    IF Len(parts) < 2      \* s[len(s)-2]: index out of range
    THEN [s |-> Panic(s), port |-> 0, err |-> Halted]
    ELSE [s |-> s,
          port |-> Atoi(parts[Len(parts) - 1]).n * 256 + Atoi(parts[Len(parts)]).n,
          err |-> NoErr]

\* pasv from strings.Index on.
pasvLine(s, line, start, end) ==
    IF start = 0 - 1 \/ end = 0 - 1
    THEN [s |-> s, port |-> 0, err |-> Err("pasvformat", 0, <<>>)]
    ELSE IF end < start + 1       \* line[start+1:end]: slice bounds out of range
    THEN [s |-> Panic(s), port |-> 0, err |-> Halted]
    ELSE pasvPort(s, Split(SubSeq(line, start + 2, end), ","))

\* pasv once the reply to PASV was read as `r`.
pasvParse(r) ==
    IF r.err # NoErr /\ r.code # StatusPassiveMode
    THEN [s |-> r.s, port |-> 0, err |-> r.err]
    ELSE pasvLine(r.s, r.message, Index(r.message, "("), Index(r.message, ")"))

pasv(s) ==
    { pasvParse(MyReadCodeLine(w.s, StatusExtendedPassiveMode)) : w \in Cmd(s, "PASV") }

\* net.Dial to (host, port): the data connection opens, or the dial fails.
Dial(s, port) ==
    {[s |-> [Log(s, Ev("dial", "", port, 0, "ok")) EXCEPT !.data = "open"],
      ok |-> TRUE, err |-> NoErr],
     [s |-> Log(s, Ev("dial", "", port, 0, "fail")),
      ok |-> FALSE, err |-> Err("dial", 0, <<>>)]}

openDataConn(s) ==
    UNION { IF p.err # NoErr
            THEN {[s |-> p.s, ok |-> FALSE, err |-> p.err]}
            ELSE Dial(p.s, p.port)
            : p \in pasv(s) }

\* conn.Close() on the data connection; a server in a transfer then ends it.
CloseData(s) ==
    IF s.halt # "run" THEN {s}
    ELSE { Log([t EXCEPT !.data = "closed"], Ev("dclose", "", 0, 0, "ok"))
           : t \in ServerDone(s) }

\* cmdDataConn gives up: conn.Close(); return nil, err.
closeAndFail(s, err) ==
    { [s |-> c, ok |-> FALSE, err |-> err] : c \in CloseData(s) }

\* A faulty cmdDataConnStatus that does not accept 227 (C6 tells it apart).
cmdDataConnStatusNo227(r) ==
    IF r.err # NoErr
    THEN closeAndFail(r.s, r.err)
    ELSE IF r.code # StatusAlreadyOpen /\ r.code # StatusAboutToSend
    THEN closeAndFail(r.s, Err("unexpected", r.code, r.message))
    ELSE { [s |-> r.s, ok |-> TRUE, err |-> NoErr] }

\* cmdDataConn once the status after the transfer command was read as `r`.
cmdDataConnStatus(r) ==
    IF r.err # NoErr
    THEN closeAndFail(r.s, r.err)
    ELSE IF r.code # StatusAlreadyOpen /\ r.code # StatusAboutToSend
            /\ r.code # StatusPassiveMode
    THEN closeAndFail(r.s, Err("unexpected", r.code, r.message))
    ELSE { [s |-> r.s, ok |-> TRUE, err |-> NoErr] }

\* cmdDataConn once the transfer command was written (`w`).
cmdDataConnSent(w) ==
    IF w.err # NoErr
    THEN closeAndFail(w.s, w.err)
    ELSE cmdDataConnStatus(MyReadCodeLine(w.s, 0 - 1))

cmdDataConn(s, name) ==
    UNION { IF o.err # NoErr
            THEN {[s |-> o.s, ok |-> FALSE, err |-> o.err]}
            ELSE UNION { cmdDataConnSent(w) : w \in Cmd(o.s, name) }
            : o \in openDataConn(s) }

(***************************************************************************)
(* response: the data transfer channel.                                    *)
(***************************************************************************)
EOFErr == Err("EOF", 0, <<>>)

DataLines == { Chars("+/,\ta\n"), Chars("?\n"), Chars("-\n") }

\* The data connection ends (`how`: "EOF" or "fail"); a server in a transfer
\* sends its completion reply.
connEnds(s, how, err) ==
    {[s |-> Log(t, Ev("dread", "", 0, 0, how)), chunk |-> <<>>, err |-> err]
     : t \in ServerDone(s)}

\* r.conn.Read on the data connection: a chunk while the server is sending
\* (`more`: it has more to send), else end-of-stream or a transport error.
connRead(s, more) ==
    IF s.halt # "run" THEN {[s |-> s, chunk |-> <<>>, err |-> Halted]}
    ELSE
      (IF s.xfer.st = "active" /\ more
       THEN {[s |-> Log(s, [Ev("dread", "", 0, 0, "data") EXCEPT !.msg = c]),
              chunk |-> c, err |-> NoErr]
             : c \in DataLines}
       ELSE {})
      \cup UNION { connEnds(s, e[1], e[2]) : e \in {<<"EOF", EOFErr>>, <<"fail", IOErr>>} }

\* A faulty readStatus, without the exception for 227 (C2 tells it apart).
readStatusNo227(rd, r2) ==
    [s |-> r2.s, chunk |-> rd.chunk,
     err |-> IF r2.err # NoErr THEN r2.err ELSE rd.err]

\* response.Read at end-of-stream, the completion status read as `r2`.
readStatus(rd, r2) ==
    [s |-> r2.s, chunk |-> rd.chunk,
     err |-> IF r2.err # NoErr /\ r2.code # StatusPassiveMode THEN r2.err ELSE rd.err]

responseRead(s, more) ==
    { IF rd.err = EOFErr
      THEN readStatus(rd, MyReadCodeLine(rd.s, StatusClosingDataConnection))
      ELSE rd
      : rd \in connRead(s, more) }

responseClose(s) == CloseData(s)

(***************************************************************************)
(* The listing parser (src/parse.go).  Go's indices count from 0: At and   *)
(* Slice read a text the way buf[i] and buf[i:j] do.                       *)
(***************************************************************************)
\* buf[i]
At(buf, i) == buf[i + 1]

\* buf[i:j]
Slice(buf, i, j) == SubSeq(buf, i + 1, j)

\* strings.Trim(buf, cutset): leading and trailing characters of cutset removed.
RECURSIVE TrimLeft(_, _)
TrimLeft(buf, cutset) ==
    IF buf # <<>> /\ buf[1] \in cutset THEN TrimLeft(Tail(buf), cutset) ELSE buf

RECURSIVE TrimRight(_, _)
TrimRight(buf, cutset) ==
    IF buf # <<>> /\ buf[Len(buf)] \in cutset
    THEN TrimRight(SubSeq(buf, 1, Len(buf) - 1), cutset)
    ELSE buf

Trim(buf, cutset) == TrimRight(TrimLeft(buf, cutset), cutset)

\* The cutset "\t\n\r " of the sub-parsers.
Blank == {"\t", "\n", "\r", " "}

\* strings.ToLower, on the letters that month names are made of.
UpperCase == Chars("ABCDEFGHIJKLMNOPQRSTUVWXYZ")

LowerCase == Chars("abcdefghijklmnopqrstuvwxyz")

ToLower(str) ==
    [k \in 1..Len(str) |->
        IF \E u \in 1..26 : UpperCase[u] = str[k]
        THEN LowerCase[CHOOSE u \in 1..26 : UpperCase[u] = str[k]]
        ELSE str[k]]

\* strconv.ParseUint(num, 10, 64): decimal digits only; [n, ok].  (Texts of
\* the model have fewer than ten digits: the range error does not arise.)
ParseUint(num) ==
    IF num = <<>> \/ \E k \in 1..Len(num) : ~IsDigit(num[k])
    THEN [n |-> 0, ok |-> FALSE]
    ELSE [n |-> DigitsVal(num), ok |-> TRUE]

\* parseInt: strconv.ParseInt(num, 10, 32) with the error dropped.
parseInt(num) == Atoi(num).n

MONTHS == <<"jan", "feb", "mar", "apr", "may", "jun",
            "jul", "aug", "sep", "oct", "nov", "dec">>

\* getMonth: 1..12, or -1.
getMonth(buf) ==
    IF Len(buf) = 3 /\ \E m \in 1..12 : Chars(MONTHS[m]) = ToLower(buf)
    THEN CHOOSE m \in 1..12 : Chars(MONTHS[m]) = ToLower(buf)
    ELSE 0 - 1

(***************************************************************************)
(* Time.  A Unix time is kept as [day, sec]: whole days since 1970-01-01   *)
(* and the second of that day, so that t = day * 86400 + sec.              *)
(***************************************************************************)
UnixTime(day, sec) == [day |-> day + (sec \div 86400), sec |-> sec % 86400]

\* time.Unix(t, 0) of a number of seconds.
UnixOf(t) == UnixTime(0, t)

\* time.Time{}: January 1, year 1, 00:00:00 UTC.
ZeroTime == UnixTime(0 - 719162, 0)

IsLeap(y) == (y % 4 = 0 /\ y % 100 # 0) \/ y % 400 = 0

DaysBefore == <<0, 31, 59, 90, 120, 151, 181, 212, 243, 273, 304, 334>>

\* Days from 1970-01-01 to the first day of month m (1..12) of year y.
MonthStart(y, m) ==
    365 * (y - 1) + ((y - 1) \div 4) - ((y - 1) \div 100) + ((y - 1) \div 400)
    + DaysBefore[m] + (IF IsLeap(y) /\ m > 2 THEN 1 ELSE 0) - 719162

\* getMtime: time.Date(year, month, mday, hour, minute, second, 0, UTC).Unix();
\* time.Date normalises values outside their usual ranges.
getMtime(year, month, mday, hour, minute, second) ==
    UnixTime(MonthStart(year + ((month - 1) \div 12), ((month - 1) % 12) + 1) + mday - 1,
             hour * 3600 + minute * 60 + second)

\* t1 - t2 in seconds.
Since(t1, t2) == (t1.day - t2.day) * 86400 + (t1.sec - t2.sec)

\* The clock read once when the process starts: var now = time.Now() and
\* currentYear = now.Year(), the zone of the process taken as UTC.
Clock(year, month, mday, hour) ==
    [Unix |-> getMtime(year, month, mday, hour, 0, 0), Year |-> year, Month |-> month]

\* The loop of guessTime from `year` on.
RECURSIVE guessFrom(_, _, _, _, _, _)
guessFrom(now, year, month, mday, hour, minute) ==
    IF year >= now.Year + 100 THEN UnixOf(0)
    ELSE IF Since(now.Unix, getMtime(year, month, mday, hour, minute, 0)) < 350 * 86400
    THEN getMtime(year, month, mday, hour, minute, 0)
    ELSE guessFrom(now, year + 1, month, mday, hour, minute)

\* A faulty guessTime, which starts at the current year (C18 tells it apart).
guessTimeFromCurrent(now, month, mday, hour, minute) ==
    guessFrom(now, now.Year, month, mday, hour, minute)

\* A faulty guessTime, which starts at the year after the current one (C29
\* tells it apart).
guessTimeFromNext(now, month, mday, hour, minute) ==
    guessFrom(now, now.Year + 1, month, mday, hour, minute)

guessTime(now, month, mday, hour, minute) ==
    guessFrom(now, now.Year - 1, month, mday, hour, minute)

(***************************************************************************)
(* FTPListData.                                                            *)
(***************************************************************************)
\* ParseLine returned nil.
Nil == [nil |-> TRUE]

\* ParseLine did not return: index or slice bounds out of range.
Panicked == [panic |-> TRUE]

newFTPListData(rawLine) ==
    [RawLine |-> rawLine, Name |-> <<>>, TryCwd |-> FALSE, TryRetr |-> FALSE,
     Size |-> 0, MtimeType |-> "UNKNOWN_MTIME_TYPE", Mtime |-> ZeroTime,
     IdType |-> "UNKNOWN_ID_TYPE", Id |-> <<>>, LinkDest |-> <<>>]

(***************************************************************************)
(* parseEPLF                                                               *)
(***************************************************************************)
RECURSIVE eplfScan(_, _, _, _)

\* The body of `if buf[j] == ','`: the fact buf[i:j], then i = j + 1.
eplfFact(buf, i, j, fdata) ==
    CASE At(buf, i) = "/" -> eplfScan(buf, j + 1, j + 1, [fdata EXCEPT !.TryCwd = TRUE])
      [] At(buf, i) = "r" -> eplfScan(buf, j + 1, j + 1, [fdata EXCEPT !.TryRetr = TRUE])
      [] At(buf, i) = "s" ->
            IF ~ParseUint(Slice(buf, i + 1, j)).ok THEN Nil
            ELSE eplfScan(buf, j + 1, j + 1,
                          [fdata EXCEPT !.Size = ParseUint(Slice(buf, i + 1, j)).n])
      [] At(buf, i) = "m" ->
            IF ~Atoi(Slice(buf, i + 1, j)).ok THEN Nil
            ELSE eplfScan(buf, j + 1, j + 1,
                          [fdata EXCEPT !.MtimeType = "LOCAL_MTIME_TYPE",
                                        !.Mtime = UnixOf(Atoi(Slice(buf, i + 1, j)).n)])
      [] At(buf, i) = "i" ->
            IF j - i - 1 < i + 1     \* buf[i+1:j-i-1]: slice bounds out of range
            THEN Panicked
            ELSE eplfScan(buf, j + 1, j + 1,
                          [fdata EXCEPT !.IdType = "FULL_ID_TYPE",
                                        !.Id = Slice(buf, i + 1, j - i - 1)])
      [] OTHER -> eplfScan(buf, j + 1, j + 1, fdata)

\* The loop of parseEPLF at j, the current fact starting at i.
eplfScan(buf, i, j, fdata) ==
    IF j >= Len(buf) THEN fdata
    ELSE IF At(buf, j) = "\t" THEN [fdata EXCEPT !.Name = Slice(buf, j + 1, Len(buf))]
    ELSE IF At(buf, j) = "," THEN eplfFact(buf, i, j, fdata)
    ELSE eplfScan(buf, i, j + 1, fdata)

parseEPLF(buf) == eplfScan(Trim(buf, Blank), 1, 1, newFTPListData(buf))

(***************************************************************************)
(* parseUNIXStyle                                                          *)
(***************************************************************************)
\* for i = j + 1; (i < buflen) && (buf[i] == ' '); i++ {}
RECURSIVE SkipSpaces(_, _)
SkipSpaces(buf, i) ==
    IF i < Len(buf) /\ At(buf, i) = " " THEN SkipSpaces(buf, i + 1) ELSE i

\* State 7: the token buf[i:j] is the time or the year; then the name.
unixWhen(buf, now, i, j, v) ==
    IF j - i = 4 /\ At(buf, i + 1) = ":"
    THEN [v EXCEPT !.state = 8, !.Name = Slice(buf, j + 1, Len(buf)),
                   !.MtimeType = "REMOTE_MINUTE_MTIME_TYPE",
                   !.Mtime = guessTime(now, v.month, v.mday,
                                       parseInt(Slice(buf, i, i + 1)),
                                       parseInt(Slice(buf, i + 2, i + 4)))]
    ELSE IF j - i = 5 /\ At(buf, i + 2) = ":"
    THEN [v EXCEPT !.state = 8, !.Name = Slice(buf, j + 1, Len(buf)),
                   !.MtimeType = "REMOTE_MINUTE_MTIME_TYPE",
                   !.Mtime = guessTime(now, v.month, v.mday,
                                       parseInt(Slice(buf, i, i + 2)),
                                       parseInt(Slice(buf, i + 3, i + 5)))]
    ELSE IF j - i >= 4
    THEN [v EXCEPT !.state = 8, !.Name = Slice(buf, j + 1, Len(buf)),
                   !.MtimeType = "REMOTE_DAY_MTIME_TYPE",
                   !.Mtime = getMtime(parseInt(Slice(buf, i, j)), v.month, v.mday, 0, 0, 0)]
    ELSE [v EXCEPT !.break = TRUE]

\* A faulty unixToken, which in state 5 keeps the tentative size when the
\* token is not a month (C19 tells it apart).
unixTokenFirstSize(buf, now, i, j, v) ==
    CASE v.state = 1 -> [v EXCEPT !.state = 2]
      [] v.state = 2 ->
            [v EXCEPT !.state = IF j - i = 6 /\ At(buf, i) = "f" THEN 4 ELSE 3]
      [] v.state = 3 -> [v EXCEPT !.state = 4]
      [] v.state = 4 -> [v EXCEPT !.state = 5, !.size = ParseUint(Slice(buf, i, j)).n]
      [] v.state = 5 ->
            IF getMonth(Slice(buf, i, j)) >= 0
            THEN [v EXCEPT !.state = 6, !.month = getMonth(Slice(buf, i, j))]
            ELSE [v EXCEPT !.month = 0 - 1]
      [] v.state = 6 -> [v EXCEPT !.state = 7, !.mday = parseInt(Slice(buf, i, j))]
      [] v.state = 7 -> unixWhen(buf, now, i, j, v)
      [] OTHER -> v

\* The token buf[i:j] has ended at the space buf[j]: the step of the scanner.
unixToken(buf, now, i, j, v) ==
    CASE v.state = 1 -> [v EXCEPT !.state = 2]
      [] v.state = 2 ->
            [v EXCEPT !.state = IF j - i = 6 /\ At(buf, i) = "f" THEN 4 ELSE 3]
      [] v.state = 3 -> [v EXCEPT !.state = 4]
      [] v.state = 4 -> [v EXCEPT !.state = 5, !.size = ParseUint(Slice(buf, i, j)).n]
      [] v.state = 5 ->
            IF getMonth(Slice(buf, i, j)) >= 0
            THEN [v EXCEPT !.state = 6, !.month = getMonth(Slice(buf, i, j))]
            ELSE [v EXCEPT !.month = 0 - 1, !.size = ParseUint(Slice(buf, i, j)).n]
      [] v.state = 6 -> [v EXCEPT !.state = 7, !.mday = parseInt(Slice(buf, i, j))]
      [] v.state = 7 -> unixWhen(buf, now, i, j, v)
      [] OTHER -> v

\* After the step at j: the next token starts past the spaces, unless the
\* step left the loop.
unixNext(buf, j, v) ==
    IF v.break THEN v ELSE [v EXCEPT !.i = SkipSpaces(buf, j + 1)]

\* for j := 1; j < buflen; j++
RECURSIVE unixScan(_, _, _, _)
unixScan(buf, now, j, v) ==
    IF j >= Len(buf) \/ v.break THEN v
    ELSE IF At(buf, j) = " " /\ At(buf, j - 1) # " "
    THEN unixScan(buf, now, j + 1, unixNext(buf, j, unixToken(buf, now, v.i, j, v)))
    ELSE unixScan(buf, now, j + 1, v)

\* The locals of parseUNIXStyle before its loop (Name, MtimeType, Mtime: the
\* fields of fdata the loop assigns).
unixLocals ==
    [state |-> 1, i |-> 0, size |-> 0, month |-> 1, mday |-> 0, break |-> FALSE,
     Name |-> <<>>, MtimeType |-> "UNKNOWN_MTIME_TYPE", Mtime |-> ZeroTime]

\* fdata when the loop has ended: the flags chosen by c = buf[0], what the
\* loop assigned, and fdata.Size = size.
unixEntry(rawLine, c, v) ==
    [newFTPListData(rawLine) EXCEPT
        !.TryCwd = c \in {"d", "l"}, !.TryRetr = c \in {"-", "l"},
        !.Name = v.Name, !.MtimeType = v.MtimeType, !.Mtime = v.Mtime, !.Size = v.size]

\* The positions i of name with name[i:i+4] == " -> ".
Arrows(name) ==
    {i \in 0..(Len(name) - 4) : Slice(name, i, i + 4) = <<" ", "-", ">", " ">>}

FirstArrow(name) == CHOOSE i \in Arrows(name) : \A k \in Arrows(name) : i <= k

\* if c == 'l': the name is cut at the first " -> ".
unixLink(c, fdata) ==
    IF c = "l" /\ Arrows(fdata.Name) # {}
    THEN [fdata EXCEPT
            !.Name = Slice(fdata.Name, 0, FirstArrow(fdata.Name)),
            !.LinkDest = Slice(fdata.Name, FirstArrow(fdata.Name) + 4, Len(fdata.Name))]
    ELSE fdata

\* "eliminate extra NetWare spaces" (strings.TrimSpace; the texts of the
\* model hold no other white space than Blank); buf[1] of a one-character
\* buf: index out of range.
unixNetWare(buf, fdata) ==
    IF Len(buf) < 2 THEN Panicked
    ELSE IF At(buf, 1) \in {" ", "["} /\ Len(fdata.Name) > 3
    THEN [fdata EXCEPT !.Name = Trim(fdata.Name, Blank)]
    ELSE fdata

\* parseUNIXStyle once buf = strings.Trim(buf, "\t\n\r ").
unixTrimmed(rawLine, buf, now) ==
    IF buf = <<>> THEN Panicked      \* buf[0]: index out of range
    ELSE unixNetWare(buf, unixLink(At(buf, 0),
                                   unixEntry(rawLine, At(buf, 0),
                                             unixScan(buf, now, 1, unixLocals))))

parseUNIXStyle(buf, now) == unixTrimmed(buf, Trim(buf, Blank), now)

(***************************************************************************)
(* parseMultinet and parseMSDOS                                            *)
(***************************************************************************)
\* strings.Index(s[i:], sep) for a one-byte sep, counted from i.
indexAfter(s, sep, i) ==
    IF \E k \in i..(Len(s) - 1) : At(s, k) = sep
    THEN CHOOSE k \in i..(Len(s) - 1) :
            At(s, k) = sep /\ \A m \in i..(k - 1) : At(s, m) # sep
    ELSE 0 - 1

RECURSIVE skip(_, _, _)
skip(s, i, c) ==
    IF At(s, i) # c THEN i
    ELSE IF i + 1 = Len(s) THEN 0 - 1
    ELSE skip(s, i + 1, c)

\* for (buf[j] != a) && (buf[j] != b) { j += 1; if j == buflen { return } }
RECURSIVE until(_, _, _)
until(buf, j, stops) ==
    IF At(buf, j) \in stops THEN j
    ELSE IF j + 1 = Len(buf) THEN 0 - 1
    ELSE until(buf, j + 1, stops)

\* The idiom both parsers repeat: j = indexAfter(buf, sep, j), the token
\* buf[i:j], then j = skip(buf, j, sep) and i = j; `ok` is FALSE where the
\* code returns.
field(buf, i, sep) ==
    IF indexAfter(buf, sep, i) = 0 - 1 THEN [ok |-> FALSE, tok |-> <<>>, next |-> i]
    ELSE [ok |-> skip(buf, indexAfter(buf, sep, i), sep) # 0 - 1,
          tok |-> Slice(buf, i, indexAfter(buf, sep, i)),
          next |-> skip(buf, indexAfter(buf, sep, i), sep)]

\* The last step of parseMultinet: the minute ends at ':' or ' ' (`j`).
multinetMinute(buf, fdata, i, d, j) ==
    IF j = 0 - 1 THEN fdata
    ELSE [fdata EXCEPT
            !.MtimeType = "REMOTE_MINUTE_MTIME_TYPE",
            !.Mtime = getMtime(d.year, d.month, d.mday, d.hour,
                               parseInt(Slice(buf, i, j)), 0)]

RECURSIVE multinetFrom(_, _, _, _, _)

\* Step `stage` of parseMultinet read the field `f`.
multinetField(buf, fdata, stage, d, f) ==
    IF ~f.ok THEN fdata
    ELSE CASE stage \in {1, 2} -> multinetFrom(buf, fdata, stage + 1, f.next, d)
           [] stage = 3 ->
                 multinetFrom(buf, fdata, 4, f.next, [d EXCEPT !.mday = parseInt(f.tok)])
           [] stage = 4 ->
                 IF getMonth(f.tok) < 0 THEN fdata
                 ELSE multinetFrom(buf, fdata, 5, f.next, [d EXCEPT !.month = getMonth(f.tok)])
           [] stage = 5 ->
                 multinetFrom(buf, fdata, 6, f.next, [d EXCEPT !.year = parseInt(f.tok)])
           [] OTHER ->
                 multinetFrom(buf, fdata, 7, f.next, [d EXCEPT !.hour = parseInt(f.tok)])

\* parseMultinet from position i: stages 1, 2 skip one token each (through
\* the spaces after it), 3 reads the day, 4 the month, 5 the year, 6 the
\* hour, 7 the minute.
multinetFrom(buf, fdata, stage, i, d) ==
    IF stage = 7 THEN multinetMinute(buf, fdata, i, d, until(buf, i, {":", " "}))
    ELSE multinetField(buf, fdata, stage, d,
                       field(buf, i, CASE stage \in {1, 2, 5} -> " "
                                       [] stage \in {3, 4} -> "-"
                                       [] OTHER -> ":"))

\* var month = 1, mday, hour, minute, year = 0
NoDate == [month |-> 1, mday |-> 0, hour |-> 0, minute |-> 0, year |-> 0]

\* A faulty multinetName, which takes ".DIR" off a name that is nothing else
\* (C20 tells it apart).
multinetNameAnyDIR(rawLine, buf, i) ==
    IF i >= 4 /\ Slice(buf, i - 4, i) = Chars(".DIR")
    THEN [newFTPListData(rawLine) EXCEPT !.Name = Slice(buf, 0, i - 4), !.TryCwd = TRUE]
    ELSE [newFTPListData(rawLine) EXCEPT !.Name = Slice(buf, 0, i), !.TryRetr = TRUE]

\* fdata of parseMultinet before the date is read: the name is buf[:i],
\* without ".DIR" for a directory.
multinetName(rawLine, buf, i) ==
    IF i > 4 /\ Slice(buf, i - 4, i) = Chars(".DIR")
    THEN [newFTPListData(rawLine) EXCEPT !.Name = Slice(buf, 0, i - 4), !.TryCwd = TRUE]
    ELSE [newFTPListData(rawLine) EXCEPT !.Name = Slice(buf, 0, i), !.TryRetr = TRUE]

\* parseMultinet once buf = strings.Trim(buf, "\t\n\r ").
multinetTrimmed(rawLine, buf, i) ==
    IF i > Len(buf) THEN Panicked       \* buf[:i]: slice bounds out of range
    ELSE multinetFrom(buf, multinetName(rawLine, buf, i), 1, i, NoDate)

parseMultinet(buf, i) == multinetTrimmed(buf, Trim(buf, Blank), i)

\* Go's % truncates towards zero.
Rem(a, b) == IF a >= 0 THEN a % b ELSE 0 - ((0 - a) % b)

\* if buf[j] == c { j += 1; if j == buflen { return } }: the new j, -1 where
\* the code returns.
past(buf, j, c) ==
    IF At(buf, j) # c THEN j
    ELSE IF j + 1 = Len(buf) THEN 0 - 1
    ELSE j + 1

\* The end of parseMSDOS: the name starts at j, after the spaces.
msdosName(buf, fdata, d, j) ==
    IF j = 0 - 1 THEN fdata
    ELSE [fdata EXCEPT
            !.Name = Slice(buf, j, Len(buf)),
            !.MtimeType = "REMOTE_MINUTE_MTIME_TYPE",
            !.Mtime = getMtime(d.year, d.month, d.mday, d.hour, d.minute, 0)]

\* parseMSDOS at "<DIR>" or the size, which starts at j and ends at the space k.
msdosSize(buf, fdata, d, j, k) ==
    IF At(buf, j) = "<"
    THEN IF k = 0 - 1 THEN [fdata EXCEPT !.TryCwd = TRUE]
         ELSE msdosName(buf, [fdata EXCEPT !.TryCwd = TRUE], d, skip(buf, k, " "))
    ELSE IF k = 0 - 1 THEN fdata
         ELSE msdosName(buf, [fdata EXCEPT !.Size = ParseUint(Slice(buf, j, k)).n,
                                           !.TryRetr = TRUE],
                        d, skip(buf, k, " "))

\* parseMSDOS after the minute: 'A', 'P', 'M' are passed (step 1, 2, 3), then
\* the spaces (step 4).
RECURSIVE msdosSuffix(_, _, _, _, _)
msdosSuffix(buf, fdata, d, step, j) ==
    IF j = 0 - 1 THEN fdata
    ELSE CASE step = 1 -> msdosSuffix(buf, fdata, d, 2, past(buf, j, "A"))
           [] step = 2 ->
                 msdosSuffix(buf, fdata,
                             IF At(buf, j) = "P"
                             THEN [d EXCEPT !.hour = Rem(d.hour + 12, 24)] ELSE d,
                             3, past(buf, j, "P"))
           [] step = 3 -> msdosSuffix(buf, fdata, d, 4, past(buf, j, "M"))
           [] step = 4 -> msdosSuffix(buf, fdata, d, 5, skip(buf, j, " "))
           [] OTHER -> msdosSize(buf, fdata, d, j, indexAfter(buf, " ", j))

\* parseMSDOS at the minute, which starts at i and ends at 'A' or 'P' (`j`).
msdosMinute(buf, fdata, i, d, j) ==
    IF j = 0 - 1 THEN fdata
    ELSE msdosSuffix(buf, fdata, [d EXCEPT !.minute = parseInt(Slice(buf, i, j))], 1, j)

\* A faulty year window, which turns at 70 instead of 50 (C21 tells it apart).
msdosYearPivot70(year) ==
    IF year < 70 THEN year + 2000 ELSE IF year < 1000 THEN year + 1900 ELSE year

\* if year < 50 { year += 2000 }; if year < 1000 { year += 1900 }
msdosYear(year) ==
    IF (IF year < 50 THEN year + 2000 ELSE year) < 1000
    THEN (IF year < 50 THEN year + 2000 ELSE year) + 1900
    ELSE (IF year < 50 THEN year + 2000 ELSE year)

RECURSIVE msdosFrom(_, _, _, _, _)

\* Step `stage` of parseMSDOS read the field `f`.
msdosField(buf, fdata, stage, d, f) ==
    IF ~f.ok THEN fdata
    ELSE CASE stage = 1 ->
                 msdosFrom(buf, fdata, 2, f.next, [d EXCEPT !.month = parseInt(f.tok)])
           [] stage = 2 ->
                 msdosFrom(buf, fdata, 3, f.next, [d EXCEPT !.mday = parseInt(f.tok)])
           [] stage = 3 ->
                 msdosFrom(buf, fdata, 4, f.next,
                           [d EXCEPT !.year = msdosYear(parseInt(f.tok))])
           [] OTHER ->
                 msdosFrom(buf, fdata, 5, f.next, [d EXCEPT !.hour = parseInt(f.tok)])

\* parseMSDOS from position i: stage 1 reads the month, 2 the day, 3 the
\* year, 4 the hour, 5 the minute and the rest.
msdosFrom(buf, fdata, stage, i, d) ==
    IF stage = 5 THEN msdosMinute(buf, fdata, i, d, until(buf, i, {"A", "P"}))
    ELSE msdosField(buf, fdata, stage, d,
                    field(buf, i, CASE stage \in {1, 2} -> "-"
                                    [] stage = 3 -> " "
                                    [] OTHER -> ":"))

parseMSDOS(buf) == msdosFrom(Trim(buf, Blank), newFTPListData(buf), 1, 0, NoDate)

(***************************************************************************)
(* ParseLine                                                               *)
(***************************************************************************)
\* A faulty ParseLine, which tries the leading digit before the ';' (C17 tells
\* it apart).
ParseLineDigitFirst(ftpListLine, now) ==
    IF Len(ftpListLine) < 2 THEN Nil
    ELSE IF At(ftpListLine, 0) = "+" THEN parseEPLF(ftpListLine)
    ELSE IF At(ftpListLine, 0) \in {"b", "c", "d", "l", "p", "s", "-"}
    THEN parseUNIXStyle(ftpListLine, now)
    ELSE IF IsDigit(At(ftpListLine, 0)) THEN parseMSDOS(ftpListLine)
    ELSE IF Index(ftpListLine, ";") > 0
    THEN parseMultinet(ftpListLine, Index(ftpListLine, ";"))
    ELSE Nil

\* ParseLine; `now` is the clock the package read when the process started.
ParseLine(ftpListLine, now) ==
    IF Len(ftpListLine) < 2 THEN Nil
    ELSE IF At(ftpListLine, 0) = "+" THEN parseEPLF(ftpListLine)
    ELSE IF At(ftpListLine, 0) \in {"b", "c", "d", "l", "p", "s", "-"}
    THEN parseUNIXStyle(ftpListLine, now)
    ELSE IF Index(ftpListLine, ";") > 0
    THEN parseMultinet(ftpListLine, Index(ftpListLine, ";"))
    ELSE IF IsDigit(At(ftpListLine, 0)) THEN parseMSDOS(ftpListLine)
    ELSE Nil

\* The clock of the process that runs the session.
StartTime == Clock(2024, 11, 3, 12)

(***************************************************************************)
(* The operations of a session.  Each yields the set of its outcomes.      *)
(***************************************************************************)
Out(s, err, ok, entries) == [s |-> s, err |-> err, ok |-> ok, entries |-> entries]

\* A thin wrapper returns the error of its command cycle.
ErrOf(rs) == { Out(r.s, r.err, FALSE, <<>>) : r \in rs }

\* c.conn.Close() on the control connection.
connClose(s) ==
    IF s.halt # "run" THEN Out(s, Halted, FALSE, <<>>)
    ELSE IF s.ctrl = "open"
    THEN Out(Log([s EXCEPT !.ctrl = "closed"], Ev("cclose", "", 0, 0, "ok")),
             NoErr, FALSE, <<>>)
    ELSE Out(Log(s, Ev("cclose", "", 0, 0, "fail")), Err("closed", 0, <<>>), FALSE, <<>>)

\* A faulty Quit that closes only when QUIT was written (C8 tells it apart).
QuitIfWritten(s) ==
    { IF w.err # NoErr THEN Out(w.s, w.err, FALSE, <<>>) ELSE connClose(w.s)
      : w \in Cmd(s, "QUIT") }

\* A faulty Quit that closes and then reports the error of the write, if any
\* (C9 tells it apart).
QuitFirstError(s) ==
    { IF w.err # NoErr THEN Out(connClose(w.s).s, w.err, FALSE, <<>>) ELSE connClose(w.s)
      : w \in Cmd(s, "QUIT") }

Quit(s) == { connClose(w.s) : w \in Cmd(s, "QUIT") }

\* A faulty ConnectGreeted that fails without calling Quit (C10 tells it apart).
ConnectGreetedNoQuit(r) ==
    IF r.err # NoErr
    THEN { Out(r.s, r.err, FALSE, <<>>) }
    ELSE { Out(r.s, NoErr, TRUE, <<>>) }

\* Connect once the greeting was read as `r`.
ConnectGreeted(r) ==
    IF r.err # NoErr
    THEN { Out(q.s, r.err, FALSE, <<>>) : q \in Quit(r.s) }
    ELSE { Out(r.s, NoErr, TRUE, <<>>) }

\* textproto.Dial fails, or the connection opens and the server greets.
Connect(s) ==
    {Out(Log(s, Ev("dial", "", 21, 0, "fail")), Err("dial", 0, <<>>), FALSE, <<>>)}
    \cup
    UNION { ConnectGreeted(MyReadCodeLine(
                ServerSend([Log(s, Ev("dial", "", 21, 0, "ok"))
                              EXCEPT !.ctrl = "open", !.peer = "up", !.nsent = 1],
                           g, "greet", 1),
                StatusReady))
            : g \in Replies("greet") }

\* A faulty Login that sends PASS whatever the reply to USER (C7 tells it apart).
LoginUngated(s) ==
    UNION { { Out(p.s, IF p.code = StatusLoggedIn THEN NoErr ELSE p.err, FALSE, <<>>)
              : p \in cmd(u.s, StatusLoggedIn, "PASS") }
            : u \in cmd(s, StatusUserOK, "USER") }

Login(s) ==
    UNION { IF u.err # NoErr
            THEN { Out(u.s, u.err, FALSE, <<>>) }
            ELSE { Out(p.s, IF p.code = StatusLoggedIn THEN NoErr ELSE p.err, FALSE, <<>>)
                   : p \in cmd(u.s, StatusLoggedIn, "PASS") }
            : u \in cmd(s, StatusUserOK, "USER") }

RECURSIVE ListLoop(_, _, _)

\* List once ParseLine returned `ftplistdata` for the line read by `rd`.
ListLine(rd, entries, k, ftplistdata) ==
    IF ftplistdata = Panicked THEN { Out(Panic(rd.s), Halted, FALSE, <<>>) }
    ELSE ListLoop(rd.s, Append(entries, ftplistdata), k + 1)

\* The read loop of List: `entries` so far, `k` lines read.
ListLoop(s, entries, k) ==
    UNION { IF rd.err = EOFErr
            THEN { Out(c, NoErr, TRUE, entries) : c \in responseClose(rd.s) }
            ELSE IF rd.err # NoErr
            THEN { Out(rd.s, NoErr, TRUE, entries) }
            ELSE ListLine(rd, entries, k, ParseLine(rd.chunk, StartTime))
            : rd \in responseRead(s, k < MaxData) }

List(s) ==
    UNION { IF d.err # NoErr
            THEN { Out(d.s, d.err, FALSE, <<>>) }
            ELSE ListLoop(d.s, <<>>, 0)
            : d \in cmdDataConn(s, "LIST") }

ChangeDir(s) == ErrOf(cmd(s, StatusRequestedFileActionOK, "CWD"))

ChangeDirToParent(s) == ErrOf(cmd(s, StatusRequestedFileActionOK, "CDUP"))

\* CurrentDir from strings.Index on; `entries` carries the returned path.
CurrentDirPath(s, msg, start, end) ==
    IF start = 0 - 1 \/ end = 0 - 1
    THEN Out(s, Err("pwdformat", 0, <<>>), FALSE, <<>>)
    ELSE IF end < start + 1   \* msg[start+1:end]: slice bounds out of range
    THEN Out(Panic(s), Halted, FALSE, <<>>)
    ELSE Out(s, NoErr, TRUE, SubSeq(msg, start + 2, end))

\* CurrentDir once c.cmd returned `r`.
CurrentDirReply(r) ==
    IF r.err # NoErr THEN Out(r.s, r.err, FALSE, <<>>)
    ELSE CurrentDirPath(r.s, r.message, Index(r.message, "\""),
                        LastIndex(r.message, "\""))

CurrentDir(s) ==
    { CurrentDirReply(r) : r \in cmd(s, StatusPathCreated, "PWD") }

Retr(s) ==
    { Out(d.s, d.err, d.ok, <<>>) : d \in cmdDataConn(s, "RETR") }

\* A faulty StorStatus that reads the completion status after a failed copy
\* too (C28 tells it apart).
StorStatusAlways(s, copied) ==
    ErrOf({MyReadCodeLine(s, StatusClosingDataConnection)})

\* Stor after io.Copy and conn.Close().
StorStatus(s, copied) ==
    IF copied
    THEN ErrOf({MyReadCodeLine(s, StatusClosingDataConnection)})
    ELSE { Out(s, Err("copy", 0, <<>>), FALSE, <<>>) }

\* io.Copy(conn, r) succeeds or fails; the data connection is closed either way.
Stor(s) ==
    UNION { IF d.err # NoErr
            THEN { Out(d.s, d.err, FALSE, <<>>) }
            ELSE UNION { StorStatus(cc[2], cc[1])
                         : cc \in UNION { {copied} \X
                                 CloseData(Log(d.s, Ev("copy", "", 0, 0,
                                               IF copied THEN "ok" ELSE "fail")))
                                 : copied \in BOOLEAN } }
            : d \in cmdDataConn(s, "STOR") }

Rename(s) ==
    UNION { IF f.err # NoErr
            THEN { Out(f.s, f.err, FALSE, <<>>) }
            ELSE ErrOf(cmd(f.s, StatusRequestedFileActionOK, "RNTO"))
            : f \in cmd(s, StatusRequestFilePending, "RNFR") }

Delete(s) == ErrOf(cmd(s, StatusRequestedFileActionOK, "DELE"))

MakeDir(s) == ErrOf(cmd(s, StatusPathCreated, "MKD"))

RemoveDir(s) == ErrOf(cmd(s, StatusRequestedFileActionOK, "RMD"))

NoOp(s) == ErrOf(cmd(s, StatusCommandOK, "NOOP"))

(***************************************************************************)
(* The state machine: a caller that makes one call at a time.              *)
(***************************************************************************)
NoXfer == [st |-> "none", n |-> 0]

NoRet == [op |-> "none", err |-> NoErr, ok |-> FALSE, entries |-> <<>>,
          trace |-> <<>>, inq0 |-> <<>>, after |-> ""]

NoApp == [fn |-> "none", arg |-> <<>>, val |-> <<>>]

\* The connection as a call finds it.
Cur == [ctrl |-> ctrl, peer |-> peer, inq |-> inq, xfer |-> xfer, data |-> data,
        halt |-> halt, nsent |-> 0, trace |-> <<>>]

\* The call `op` ends with outcome `o`.
Done(op, o) ==
    /\ ctrl' = o.s.ctrl
    /\ peer' = o.s.peer
    /\ inq' = o.s.inq
    /\ xfer' = o.s.xfer
    /\ data' = o.s.data
    /\ halt' = o.s.halt
    /\ ret' = [op |-> op, err |-> o.err, ok |-> o.ok, entries |-> o.entries,
               trace |-> o.s.trace, inq0 |-> inq, after |-> ret.after]
    /\ app' = app

Init ==
    /\ ctrl = "none"
    /\ have = FALSE
    /\ peer = "down"
    /\ inq = <<>>
    /\ xfer = NoXfer
    /\ data = "none"
    /\ resp = [live |-> FALSE, nread |-> 0, eof |-> FALSE, nstatus |-> 0]
    /\ halt = "run"
    /\ nops = 0
    /\ ret = NoRet
    /\ app = NoApp

CallConnect ==
    /\ ctrl = "none" /\ ret.op = "none"
    /\ \E o \in Connect(Cur) : Done("Connect", o) /\ have' = o.ok
    /\ UNCHANGED <<resp, nops>>

\* The caller may make its next call.
Ready ==
    have /\ halt = "run" /\ ret.op = "none" /\ ~resp.live /\ nops < MaxOps

Call(op, outcomes) ==
    /\ Ready /\ ctrl = "open"
    /\ \E o \in outcomes : Done(op, o)
    /\ nops' = nops + 1
    /\ UNCHANGED <<have, resp>>

CallLogin == Call("Login", Login(Cur))

CallList == Call("List", List(Cur))

CallChangeDir == Call("ChangeDir", ChangeDir(Cur))

CallChangeDirToParent == Call("ChangeDirToParent", ChangeDirToParent(Cur))

CallCurrentDir == Call("CurrentDir", CurrentDir(Cur))

CallStor == Call("Stor", Stor(Cur))

CallRename == Call("Rename", Rename(Cur))

CallDelete == Call("Delete", Delete(Cur))

CallMakeDir == Call("MakeDir", MakeDir(Cur))

CallRemoveDir == Call("RemoveDir", RemoveDir(Cur))

CallNoOp == Call("NoOp", NoOp(Cur))

CallRetr ==
    /\ Ready /\ ctrl = "open"
    /\ \E o \in Retr(Cur) :
          /\ Done("Retr", o)
          /\ resp' = [live |-> o.ok /\ o.s.halt = "run", nread |-> 0, eof |-> FALSE,
                      nstatus |-> 0]
    /\ nops' = nops + 1
    /\ UNCHANGED have

\* Quit may also be called on a session that was already quit.
CallQuit ==
    /\ Ready
    /\ \E o \in Quit(Cur) : Done("Quit", o)
    /\ nops' = nops + 1
    /\ UNCHANGED <<have, resp>>

\* The number of statuses decoded in a trace.
Decodings(trace) == Cardinality({i \in DOMAIN trace : trace[i].ev = "decode"})

\* One Read on the response that Retr returned; `nstatus` counts the statuses
\* its Reads have decoded from the control connection.
CallRead ==
    /\ resp.live /\ halt = "run" /\ ret.op = "none"
    /\ \E o \in responseRead([Cur EXCEPT !.nsent = 2], resp.nread < MaxData) :
          /\ Done("Read", Out(o.s, o.err, o.err = NoErr, o.chunk))
          /\ resp' = [resp EXCEPT !.nread = IF o.err = NoErr THEN @ + 1 ELSE @,
                                   !.eof = @ \/ o.s.trace[1].k = "EOF",
                                   !.nstatus = @ + Decodings(o.s.trace)]
    /\ UNCHANGED <<have, nops>>

\* Close on the response that Retr returned.
CallClose ==
    /\ resp.live /\ halt = "run" /\ ret.op = "none"
    /\ \E c \in responseClose(Cur) : Done("Close", Out(c, NoErr, FALSE, <<>>))
    /\ resp' = [resp EXCEPT !.live = FALSE]
    /\ UNCHANGED <<have, nops>>

\* The thin wrappers: one command cycle, its error returned.
ThinOps == {"ChangeDir", "ChangeDirToParent", "Delete", "MakeDir", "RemoveDir", "NoOp"}

\* The last call is a thin wrapper that found nothing unread, wrote its
\* command and decoded a well-formed reply outside its expected code.
RefusedThin ==
    /\ ret.op \in ThinOps /\ ret.inq0 = <<>>
    /\ Len(ret.trace) >= 3
    /\ ret.trace[1].ev = "write" /\ ret.trace[1].k = "ok"
    /\ ret.trace[2].ev = "line"
    /\ ret.trace[3].ev = "decode" /\ ret.trace[3].k = "unexpected"

\* The caller has looked at the result of its last call and goes on: lines
\* still unread now belong to an earlier call.  `after` remembers that the
\* call was a thin wrapper refused by the server.
Continue ==
    /\ ret.op # "none" /\ halt = "run"
    /\ ret' = [NoRet EXCEPT !.after = IF RefusedThin THEN "refused" ELSE ""]
    /\ inq' = IF resp.live THEN inq ELSE [i \in 1..Len(inq) |-> [inq[i] EXCEPT !.n = 0]]
    /\ xfer' = IF resp.live THEN xfer ELSE NoXfer
    /\ data' = IF resp.live THEN data ELSE "none"
    /\ UNCHANGED <<ctrl, have, peer, resp, halt, nops, app>>

Next ==
    \/ CallConnect
    \/ CallLogin
    \/ CallList
    \/ CallChangeDir
    \/ CallChangeDirToParent
    \/ CallCurrentDir
    \/ CallRetr
    \/ CallRead
    \/ CallClose
    \/ CallStor
    \/ CallRename
    \/ CallDelete
    \/ CallMakeDir
    \/ CallRemoveDir
    \/ CallNoOp
    \/ CallQuit
    \/ Continue

Spec == Init /\ [][Next]_vars

(***************************************************************************)
(* The functions of the package applied on their own, to every input of a  *)
(* bounded set.                                                            *)
(***************************************************************************)
MaxLine == 5    \* characters of a status line given to parseCodeLine

\* Every text of at most n characters of `alphabet`.
Strs(alphabet, n) == UNION { [1..k -> alphabet] : k \in 0..n }

CodeLines == Strs({"0", "1", "2", " ", "-"}, MaxLine)

ExpectCodes == {0 - 1, 0, 1, 2, 10, 12, 22, 120, 122, 1000}

\* The application of `fn` to `arg` gave `val`.
Applied(fn, arg, val) ==
    /\ app' = [fn |-> fn, arg |-> arg, val |-> val]
    /\ UNCHANGED <<ctrl, have, peer, inq, xfer, data, resp, halt, nops, ret>>

\* Nothing was applied yet.
Idle == app.fn = "none" /\ ret.op = "none"

ApplyParseCodeLine ==
    /\ Idle
    /\ \E line \in CodeLines : \E expectCode \in ExpectCodes :
        Applied("parseCodeLine", <<line, expectCode>>, parseCodeLine(line, expectCode))

MaxMsg == 5     \* characters of the message of a reply to PASV or PWD

\* The connection with the one line `line` to read: the reply to the command
\* just written.
OneLine(line) ==
    [Cur EXCEPT !.ctrl = "open", !.peer = "up", !.nsent = 1,
                !.inq = << [text |-> line, cmd |-> "", n |-> 1] >>]

PasvTexts == Strs({"(", ")", ",", "1", "2"}, MaxMsg)

PasvCodes == {StatusPassiveMode, StatusExtendedPassiveMode, StatusCommandOK}

\* What pasv returns: port, err; or it panicked.
PasvVal(r) == [port |-> r.port, err |-> r.err, halt |-> r.s.halt]

\* pasv once PASV is written and the server has answered with one line.
ApplyPasv ==
    /\ Idle
    /\ \E code \in PasvCodes : \E msg \in PasvTexts :
          Applied("pasv", <<code, msg>>,
                  PasvVal(pasvParse(MyReadCodeLine(OneLine(StatusLine(code, " ", msg)),
                                                   StatusExtendedPassiveMode))))

PwdTexts == Strs({"\"", "/", "a"}, MaxMsg)

PwdCodes == {StatusPathCreated, StatusRequestedFileActionOK}

\* What CurrentDir returns: path, err; or it panicked.
PwdVal(o) == [path |-> o.entries, err |-> o.err, halt |-> o.s.halt]

\* CurrentDir once PWD is written and the server has answered with one line.
ApplyCurrentDir ==
    /\ Idle
    /\ \E code \in PwdCodes : \E msg \in PwdTexts :
          Applied("CurrentDir", <<code, msg>>,
                  PwdVal(CurrentDirReply(
                      cmdLoop(MyReadCodeLine(OneLine(StatusLine(code, " ", msg)),
                                             StatusPathCreated),
                              StatusPathCreated))))

\* Listing lines in the formats ParseLine knows, as their servers send them.
EPLFLines ==
    { Chars("+i8388621.29609,m824255902,/,\tdev"),
      Chars("+i8388621.44468,m839956783,r,s10376,\tRFCEPLF"),
      Chars("+m82x,r,\tf"), Chars("+r,s1x,\tf"), Chars("+i1,2\tx") }

UnixLines ==
    { Chars("-rw-r--r-- 1 root other 531 Jan 29 03:26 README"),
      Chars("dr-xr-xr-x 2 root 512 Apr  8  2003 etc"),
      Chars("lrwxrwxrwx 1 root other 7 Jan 25 0:17 bin -> usr/bin"),
      Chars("d [R----F--] supervisor 512 Jan 16 18:53    login"),
      Chars("drwxrwxr-x   folder 2 May 10  1996 bar.sit"),
      Chars("-rw-r--r-- 1 a b 5x Jan 29 03:26 f"),
      Chars("-rw-r--r-- 1 a b 5 Jan 2x 996 f") }

VMSLines ==
    { Chars("CORE.DIR;1 1 8-NOV-1999 07:02 [SYSTEM] (RWED,RWED,RE,RE)"),
      Chars("00README.TXT;1 2 30-DEC-1976 17:44 [SYSTEM] (RWED,RWED,RE,RE)"),
      Chars("C.TEX;1  213/216  29-JAN-1996 03:33:12  [ANONYMOU,ANONYMOUS]   (RWED,RWED,,)"),
      Chars(".DIR;1 1 8-NOV-1999 07:02 [SYSTEM] (RWE,RWE,RE,RE)"),
      Chars("A.DIR;2 1 1-JAN-2000 00:00:59 [A] (R,R,R,R)"),
      Chars("X.Y;1 0 31-dec-1999 23:59 [A] (R,R,R,R)") }

MSDOSLines ==
    { Chars("04-27-00  09:09PM       <DIR>          licensed"),
      Chars("11-18-03  10:16AM       <DIR>          pub dir"),
      Chars("04-14-99  03:47PM                  589 readme.htm"),
      Chars("04-14-99  03:47PM 5x9 f"),
      Chars("0x-14-99  03:47PM 589 f") }

OtherLines ==
    { Chars("total 12"), Chars("?x"), Chars("  ;"), Chars("1;"), Chars(";1 1 8-NOV-1999 07:02 x"),
      Chars(";A;1 1 8-NOV-1999 07:02 x"),
      Chars("-;"), Chars("+;"), Chars("1+") }

\* The lines, every line cut short, and every line with its end of line.
Prefixes(line) == { SubSeq(line, 1, n) : n \in 0..Len(line) }

ListLines ==
    UNION { Prefixes(line) \cup {line \o <<"\n">>, line \o <<"\r", "\n">>}
            : line \in EPLFLines \cup UnixLines \cup VMSLines \cup MSDOSLines \cup OtherLines }

ApplyParseLine ==
    /\ Idle
    /\ \E ftpListLine \in ListLines :
          Applied("ParseLine", ftpListLine, ParseLine(ftpListLine, StartTime))

\* Values of the clock at the start of the process, in a common year and in a
\* leap year.
Clocks ==
    { Clock(year, month, mday, 12) : year \in {2023, 2024}, month \in 1..12, mday \in {1, 15, 28} }

ApplyGuessTime ==
    /\ Idle
    /\ \E now \in Clocks : \E month \in 1..12 : \E mday \in {1, 16, 29} :
       \E hm \in {<<0, 0>>, <<11, 34>>, <<23, 59>>} :
          Applied("guessTime",
                  [now |-> now, month |-> month, mday |-> mday,
                   hour |-> hm[1], minute |-> hm[2]],
                  guessTime(now, month, mday, hm[1], hm[2]))

\* Unix-style lines by their fields.  The fields before the size: permissions,
\* link count, owner and group; without the group; NetWare; NetPresenz.
UnixHeads ==
    { <<"-rw-r--r--", "1", "root", "other">>, <<"dr-xr-xr-x", "2", "root">>,
      <<"lrwxrwxrwx", "1", "jan", "may">>, <<"crw-rw-rw-", "1", "root", "15000">>,
      <<"d", "[R----F--]", "supervisor">>, <<"-", "[R----F--]", "rhesus">>,
      <<"drwxrwxr-x", "folder">>, <<"-------r--", "326", "1391972">> }

UnixSizes == { [text |-> "4356349", n |-> 4356349] }

UnixMonths == { [text |-> "Jan", n |-> 1], [text |-> "NOV", n |-> 11], [text |-> "may", n |-> 5] }

UnixDays == { [text |-> "29", n |-> 29] }

\* The time-or-year token: H:MM, HH:MM, a year, a year of two digits.
UnixWhens ==
    { [text |-> "3:26", year |-> 0 - 1, hour |-> 3, minute |-> 26],
      [text |-> "11:34", year |-> 0 - 1, hour |-> 11, minute |-> 34],
      [text |-> "2003", year |-> 2003, hour |-> 0, minute |-> 0],
      [text |-> "96", year |-> 96, hour |-> 0, minute |-> 0] }

UnixNames == { "a", "README", "09 Ribbons Undone.wma", "bin -> usr/bin" }

Spaces == { <<" ">>, <<" ", " ", " ">> }

RECURSIVE Join(_, _)
Join(fields, gap) ==
    IF Len(fields) = 1 THEN Chars(fields[1])
    ELSE Chars(Head(fields)) \o gap \o Join(Tail(fields), gap)

\* The line of the fields `f`, separated by `gap`, the name after `lead` more
\* spaces.
UnixLine(f, gap, lead) ==
    Join(f.head \o <<f.size.text, f.month.text, f.mday.text, f.when.text>>, gap)
    \o <<" ">> \o lead \o Chars(f.name)

ApplyParseUNIXStyle ==
    /\ Idle
    /\ \E f \in [head : UnixHeads, size : UnixSizes, month : UnixMonths, mday : UnixDays,
                 when : UnixWhens, name : UnixNames] :
       \E gap \in Spaces : \E lead \in Spaces \cup {<<>>} :
          Applied("parseUNIXStyle", [f |-> f, lead |-> lead, line |-> UnixLine(f, gap, lead)],
                  parseUNIXStyle(UnixLine(f, gap, lead), StartTime))

\* VMS lines by their fields: name, version, size, date, time, and the owner
\* and protection after them.
VMSNames == { "CORE.DIR", "00README.TXT", "CII-MANUAL.TEX", ".DIR", "A.DIR", "DIR" }

VMSSizes == { "1", "213/216" }

VMSDates ==
    { [text |-> "8-NOV-1999", year |-> 1999, month |-> 11, mday |-> 8],
      [text |-> "29-Feb-1996", year |-> 1996, month |-> 2, mday |-> 29] }

VMSTimes ==
    { [text |-> "07:02", hour |-> 7, minute |-> 2],
      [text |-> "03:33:12", hour |-> 3, minute |-> 33],
      [text |-> "23:59:59", hour |-> 23, minute |-> 59] }

VMSLine(f, gap, eol) ==
    Join(<<f.name \o ";1", f.size, f.date.text, f.time.text,
           "[SYSTEM]", "(RWED,RWED,RE,RE)">>, gap) \o eol

\* ParseLine on a VMS line: parseMultinet at the index of its ';'.
ApplyParseMultinet ==
    /\ Idle
    /\ \E f \in [name : VMSNames, size : VMSSizes, date : VMSDates, time : VMSTimes] :
       \E gap \in Spaces : \E eol \in {<<>>, <<"\n">>, <<"\r", "\n">>} :
          Applied("parseMultinet", [f |-> f, line |-> VMSLine(f, gap, eol)],
                  ParseLine(VMSLine(f, gap, eol), StartTime))

\* MS-DOS lines by their fields: the date with its year, the time with its
\* marker, "<DIR>" or the size, and the name.
MSDOSYears ==
    { [text |-> "00", n |-> 0], [text |-> "49", n |-> 49], [text |-> "50", n |-> 50],
      [text |-> "76", n |-> 76], [text |-> "99", n |-> 99], [text |-> "103", n |-> 103],
      [text |-> "999", n |-> 999], [text |-> "1000", n |-> 1000],
      [text |-> "2003", n |-> 2003] }

MSDOSHours ==
    { [text |-> "00", n |-> 0], [text |-> "09", n |-> 9], [text |-> "11", n |-> 11],
      [text |-> "12", n |-> 12] }

MSDOSMinutes == { [text |-> "09", n |-> 9], [text |-> "47", n |-> 47] }

MSDOSItems == { [text |-> "<DIR>", n |-> 0], [text |-> "589", n |-> 589], [text |-> "0", n |-> 0] }

MSDOSNames == { "licensed", "read me.htm", "PUB" }

MSDOSLine(f, gap) ==
    Join(<<"04-27-" \o f.year.text, f.hour.text \o ":" \o f.minute.text \o f.marker,
           f.item.text, f.name>>, gap)

\* ParseLine on an MS-DOS line: parseMSDOS, the line starting with a digit.
ApplyParseMSDOS ==
    /\ Idle
    /\ \E f \in [year : MSDOSYears, hour : MSDOSHours, minute : MSDOSMinutes,
                 marker : {"AM", "PM"}, item : MSDOSItems, name : MSDOSNames] :
       \E gap \in Spaces :
          Applied("parseMSDOS", [f |-> f, line |-> MSDOSLine(f, gap)],
                  ParseLine(MSDOSLine(f, gap), StartTime))

\* EPLF lines by their facts, in any order, and the name after the tab.
EPLFFacts ==
    { [tag |-> "/", text |-> "", n |-> 0, ok |-> TRUE],
      [tag |-> "r", text |-> "", n |-> 0, ok |-> TRUE],
      [tag |-> "s", text |-> "10376", n |-> 10376, ok |-> TRUE],
      [tag |-> "s", text |-> "1x", n |-> 0, ok |-> FALSE],
      [tag |-> "m", text |-> "824255902", n |-> 824255902, ok |-> TRUE],
      [tag |-> "m", text |-> "82x", n |-> 0, ok |-> FALSE],
      [tag |-> "i", text |-> "8388621.29609", n |-> 0, ok |-> TRUE],
      [tag |-> "i", text |-> "1.2", n |-> 0, ok |-> TRUE] }

MaxFacts == 3

\* The sequences of one to MaxFacts facts, no tag twice.
EPLFFactLists ==
    { fs \in UNION { [1..n -> EPLFFacts] : n \in 1..MaxFacts } :
         \A a, b \in DOMAIN fs : a # b => fs[a].tag # fs[b].tag }

RECURSIVE EPLFText(_)
EPLFText(fs) ==
    IF fs = <<>> THEN <<>>
    ELSE Chars(Head(fs).tag \o Head(fs).text \o ",") \o EPLFText(Tail(fs))

EPLFLine(fs, name) == <<"+">> \o EPLFText(fs) \o <<"\t">> \o Chars(name)

\* ParseLine on an EPLF line: parseEPLF, the line starting with '+'.
ApplyParseEPLF ==
    /\ Idle
    /\ \E fs \in EPLFFactLists : \E name \in {"dev", "RFC EPLF"} :
          Applied("parseEPLF", [fs |-> fs, name |-> name, line |-> EPLFLine(fs, name)],
                  ParseLine(EPLFLine(fs, name), StartTime))

MaxUnread == 4     \* lines unread on the control connection

\* Lines of a reply: status lines, indented lines, and others.
ReplyLines ==
    { Chars("226 T"), Chars("226-M"), Chars("  U"), Chars("   226 V"), Chars(" 226"),
      Chars("ok") }

\* The control connection with the lines `q` unread, line i tagged n = i; a
\* server that is "down" has closed the connection after them.
Unread(q, up) ==
    [ctrl |-> "open", peer |-> up,
     inq |-> [i \in 1..Len(q) |-> [text |-> q[i], cmd |-> "", n |-> i]],
     xfer |-> NoXfer, data |-> "none", halt |-> "run", nsent |-> 0, trace |-> <<>>]

\* MyreadCodeLine on a connection with up to MaxUnread lines unread.
ApplyMyreadCodeLine ==
    /\ Idle
    /\ \E n \in 0..MaxUnread : \E q \in [1..n -> ReplyLines] :
       \E up \in {"up", "down"} : \E expectCode \in {0 - 1, StatusClosingDataConnection} :
          Applied("MyreadCodeLine", [inq |-> q, peer |-> up, expectCode |-> expectCode],
                  MyreadCodeLine(Unread(q, up), expectCode))

FnNext ==
    \/ ApplyMyreadCodeLine
    \/ ApplyParseEPLF
    \/ ApplyParseMSDOS
    \/ ApplyParseCodeLine
    \/ ApplyPasv
    \/ ApplyCurrentDir
    \/ ApplyParseLine
    \/ ApplyGuessTime
    \/ ApplyParseUNIXStyle
    \/ ApplyParseMultinet

FnSpec == Init /\ [][FnNext]_vars

(***************************************************************************)
(* Reading the history of the last call.                                   *)
(***************************************************************************)
\* The last call has returned to its caller.
Returned == halt = "run" /\ ret.op # "none"

Steps(ev) == {i \in 1..Len(ret.trace) : ret.trace[i].ev = ev}

Least(S) == CHOOSE i \in S : \A j \in S : i <= j

Greatest(S) == CHOOSE i \in S : \A j \in S : j <= i

\* The steps before step i that are neither a line read nor a decoding.
Before(i) == {j \in 1..(i - 1) : ret.trace[j].ev \notin {"line", "decode"}}

\* The reply that the decoding at step i was made for: the reply to the
\* command written last, or the completion reply of the transfer once the
\* data connection has ended, or the greeting.
Want(i) ==
    IF Before(i) = {} THEN [cmd |-> "none", n |-> 0]
    ELSE LET e == ret.trace[Greatest(Before(i))]
         IN  IF e.ev = "write"
             THEN [cmd |-> e.cmd, n |-> IF e.k = "ok" THEN e.n ELSE 0 - 1]
             ELSE IF e.ev = "dial" /\ ret.op = "Connect"
             THEN [cmd |-> "greet", n |-> 1]
             ELSE [cmd |-> "done", n |-> 2]

\* The decoding at step i decoded a line that answers something else.
Stale(i) == [cmd |-> ret.trace[i].cmd, n |-> ret.trace[i].n] # Want(i)

Texts(q) == [i \in 1..Len(q) |-> q[i].text]

\* What a Serv-U completion reply leaves unread once its first line is decoded.
ServUTail == SubSeq(ServU(StatusClosingDataConnection).lines, 2, 3)

(***************************************************************************)
(* C1                                                                      *)
(***************************************************************************)
C1Ops ==
    {"Login", "List", "ChangeDir", "ChangeDirToParent", "CurrentDir",
     "Stor", "Rename", "Delete", "MakeDir", "RemoveDir", "NoOp", "Close"}

\* C1: when a session operation returns (a Retr channel: read to its end and
\* closed) on a connection that had no unread line when it was called, with a
\* server that answered every command, no line is left unread on the control
\* connection and every decoding was of the reply it was made for.
C1_CommandCycle ==
    ( /\ Returned /\ ret.op \in C1Ops /\ have /\ peer = "up" /\ ret.inq0 = <<>>
      /\ ret.op = "Close" => resp.eof )
    => /\ inq = <<>>
       /\ \A i \in Steps("decode") : ~Stale(i)

(***************************************************************************)
(* C2                                                                      *)
(***************************************************************************)
\* The Read hit end-of-stream on the data connection.
ReadHitEOF == ret.trace # <<>> /\ ret.trace[1].ev = "dread" /\ ret.trace[1].k = "EOF"

\* C2: a Read of the response that hits end-of-stream reads one completion
\* status from the control connection, expecting 226: it returns io.EOF when
\* the status matched or its code is 227, and the failure of the status read
\* otherwise; a Read that does not hit end-of-stream reads nothing from the
\* control connection.
C2_ReadAtEOF ==
    (Returned /\ ret.op = "Read") =>
        IF ReadHitEOF
        THEN /\ Steps("line") # {}
             /\ Cardinality(Steps("decode")) <= 1
             /\ ret.err = EOFErr <=>
                  \E i \in Steps("decode") :
                      \/ ret.trace[i].k = "nil" /\ ret.trace[i].code = StatusClosingDataConnection
                      \/ ret.trace[i].code = StatusPassiveMode
             /\ ret.err # EOFErr =>
                  /\ ret.err.kind \in {"io", "short", "invalidcode", "unexpected"}
                  /\ \A i \in Steps("decode") :
                        /\ ret.err.kind = ret.trace[i].k
                        /\ ret.err.kind = "unexpected" => ret.err.code = ret.trace[i].code
             /\ Steps("decode") = {} => ret.err = IOErr
        ELSE /\ Steps("line") = {} /\ Steps("decode") = {}
             /\ ret.err \in {NoErr, IOErr}

\* C2 reached: end-of-stream, the status read gave 227, Read returned io.EOF.
C2_Witness ==
    /\ Returned /\ ret.op = "Read" /\ ReadHitEOF /\ ret.err = EOFErr
    /\ \E i \in Steps("decode") :
          ret.trace[i].code = StatusPassiveMode /\ ret.trace[i].k = "unexpected"

(***************************************************************************)
(* C3                                                                      *)
(***************************************************************************)
\* The transfer of the last List did not complete: a data read failed, or at
\* end-of-stream no status with code 226 or 227 was decoded.
ListAborted ==
    \/ \E i \in Steps("dread") : ret.trace[i].k = "fail"
    \/ \E i \in Steps("dread") :
          /\ ret.trace[i].k = "EOF"
          /\ ~ \E j \in Steps("decode") :
                  /\ j > i
                  /\ ret.trace[j].code \in {StatusClosingDataConnection, StatusPassiveMode}

\* C3: List returns a non-nil error whenever the transfer did not complete.
C3_ListReportsAbort ==
    (Returned /\ ret.op = "List" /\ ListAborted) => ret.err # NoErr

(***************************************************************************)
(* C4                                                                      *)
(***************************************************************************)
\* The last call was a List whose completion reply was Serv-U's three lines,
\* the first of them decoded as the completion status.
ServUListed ==
    /\ ret.op = "List" /\ ret.inq0 = <<>>
    /\ Texts(inq) = ServUTail
    /\ \A i \in 1..Len(inq) : inq[i].cmd = "done" /\ inq[i].n = 2

\* The call found the two last lines of a Serv-U completion reply unread.
AfterServUList ==
    /\ ret.op # "none"
    /\ Texts(ret.inq0) = ServUTail
    /\ \A i \in 1..Len(ret.inq0) : ret.inq0[i].cmd = "done"

\* C4: a List that the server completes with "226-...", an indented line and
\* "226 ..." returns its entries without error, the hyphenated line accepted
\* as the completion status; and the first decoding of the next call is of
\* the reply to that call's first command, not of a line left by the List.
C4_ServU ==
    /\ (Returned /\ ServUListed) =>
          /\ ret.err = NoErr /\ ret.ok /\ data = "closed"
          /\ Len(ret.entries) = Cardinality({i \in Steps("dread") : ret.trace[i].k = "data"})
          /\ LET d == ret.trace[Greatest(Steps("decode"))]
             IN  d.code = StatusClosingDataConnection /\ d.k = "nil" /\ d.cmd = "done"
    /\ (AfterServUList /\ Steps("decode") # {}) =>
          LET d == ret.trace[Least(Steps("decode"))]
              w == ret.trace[Least(Steps("write"))]
          IN  /\ d.n = 1 /\ w.n = 1 /\ d.cmd = w.cmd
              /\ Cardinality({i \in Steps("line") : i < Least(Steps("decode"))}) = 3

\* C4 reached: after such a List, NoOp decoded the reply to NOOP and succeeded.
C4_Witness ==
    /\ Returned /\ AfterServUList /\ ret.op = "NoOp" /\ ret.err = NoErr
    /\ Steps("decode") # {}

(***************************************************************************)
(* C5                                                                      *)
(***************************************************************************)
\* C5: when List or Stor returns, the data connection it opened is closed.
C5_DataConnClosed ==
    (Returned /\ ret.op \in {"List", "Stor"}) => data # "open"

(***************************************************************************)
(* C6                                                                      *)
(***************************************************************************)
\* The writes of the transfer command in the last call.
TransferWrites ==
    {i \in Steps("write") : ret.trace[i].cmd \in TransferCmds /\ ret.trace[i].k = "ok"}

\* The decodings made after the transfer command was written.
AfterTransferWrite == {j \in Steps("decode") : j > Least(TransferWrites)}

\* The status read after the transfer command is well-formed, with one of
\* the three codes.
PreambleAccepted ==
    /\ AfterTransferWrite # {}
    /\ LET d == ret.trace[Least(AfterTransferWrite)]
       IN  /\ d.k = "nil"
           /\ d.code \in {StatusAlreadyOpen, StatusAboutToSend, StatusPassiveMode}

\* cmdDataConn gave its caller a data connection.
GotDataConn == IF ret.op = "Stor" THEN Steps("copy") # {} ELSE ret.ok

\* C6: once the transfer command is written, cmdDataConn returns an open data
\* connection iff the one status read after it is well-formed with code 125,
\* 150 or 227; otherwise it closes the data connection and fails, for a
\* well-formed status with an UnexpectedStatusCode of that code and message.
C6_Preamble ==
    (Returned /\ ret.op \in {"List", "Retr", "Stor"} /\ TransferWrites # {}) =>
        /\ GotDataConn <=> PreambleAccepted
        /\ (ret.op = "Retr" /\ PreambleAccepted) => data = "open" /\ resp.live
        /\ ~PreambleAccepted =>
              /\ data = "closed" /\ ret.err # NoErr
              /\ Steps("dread") = {} /\ Steps("copy") = {}
              /\ Cardinality(AfterTransferWrite) <= 1
              /\ \A j \in AfterTransferWrite :
                    IF ret.trace[j].k = "nil"
                    THEN ret.err = Err("unexpected", ret.trace[j].code, ret.trace[j].msg)
                    ELSE ret.err.kind = ret.trace[j].k
              /\ AfterTransferWrite = {} => ret.err = IOErr

\* C6 reached: the server refused RETR with 550; the data connection is
\* closed and the error carries 550.
C6_Witness ==
    /\ Returned /\ ret.op = "Retr" /\ TransferWrites # {} /\ ~PreambleAccepted
    /\ ret.err = Err("unexpected", 550, <<>>) /\ data = "closed"

(***************************************************************************)
(* C7                                                                      *)
(***************************************************************************)
Writes(c) == {i \in Steps("write") : ret.trace[i].cmd = c}

\* Every write of `second` comes after a write of `first` that worked and
\* one decoding, of a reply with code `code` that matched.
Gated(first, second, code) ==
    \A i \in Writes(second) :
        /\ \E w \in Writes(first) : w < i /\ ret.trace[w].k = "ok"
        /\ Cardinality({j \in Steps("decode") : j < i}) = 1
        /\ \A j \in Steps("decode") :
              j < i => ret.trace[j].code = code /\ ret.trace[j].k = "nil"

\* The first command of a two-step operation failed: it could not be
\* written, or no reply could be read, or the reply did not match.
FirstFailed ==
    \/ \A i \in Steps("write") : ret.trace[i].k = "fail"
    \/ Steps("decode") = {}
    \/ ret.trace[Least(Steps("decode"))].k # "nil"

\* The error of the first command is the one returned.
FirstErrorReturned ==
    /\ ret.err # NoErr
    /\ Steps("decode") = {} => ret.err = IOErr
    /\ Steps("decode") # {} =>
          LET d == ret.trace[Least(Steps("decode"))]
          IN  /\ ret.err.kind = d.k
              /\ d.k = "unexpected" => ret.err.code = d.code /\ ret.err.msg = d.msg

\* The decodings made after PASS was written.
AfterPass == {d \in Steps("decode") : \E w \in Writes("PASS") : w < d}

\* C7: Login writes PASS only after the reply to USER was read and matched
\* 331, and succeeds iff the reply to PASS has code 230; Rename writes RNTO
\* only after the reply to RNFR was read and matched 350; when the first
\* reply does not match, the second command is not written and the first
\* error is returned.
C7_Gating ==
    /\ ret.op = "Login" =>
          /\ Gated("USER", "PASS", StatusUserOK)
          /\ Returned =>
                /\ FirstFailed => Writes("PASS") = {} /\ FirstErrorReturned
                /\ ret.err = NoErr <=>
                      /\ Writes("PASS") # {}
                      /\ \E j \in AfterPass :
                            /\ \A d \in AfterPass : j <= d
                            /\ ret.trace[j].code = StatusLoggedIn
    /\ ret.op = "Rename" =>
          /\ Gated("RNFR", "RNTO", StatusRequestFilePending)
          /\ Returned =>
                /\ FirstFailed => Writes("RNTO") = {} /\ FirstErrorReturned
                /\ ~FirstFailed => Writes("RNTO") # {}

\* C7 reached: USER answered 331, PASS written and answered 230, Login succeeds.
C7_Witness ==
    /\ Returned /\ ret.op = "Login" /\ ret.err = NoErr
    /\ Writes("PASS") # {} /\ Cardinality(Steps("decode")) = 2

(***************************************************************************)
(* C8                                                                      *)
(***************************************************************************)
\* C8: after Quit returns the control connection is closed, whether or not
\* QUIT could be written, and Quit has read nothing.
C8_QuitCloses ==
    (Returned /\ ret.op = "Quit") =>
        /\ ctrl = "closed"
        /\ Steps("cclose") # {}
        /\ Cardinality(Writes("QUIT")) = 1
        /\ Steps("line") = {} /\ Steps("decode") = {}

\* C8 reached: QUIT could not be written and the connection that was open is
\* closed.
C8_Witness ==
    /\ Returned /\ ret.op = "Quit" /\ ctrl = "closed"
    /\ \E i \in Writes("QUIT") : ret.trace[i].k = "fail"
    /\ \E i \in Steps("cclose") : ret.trace[i].k = "ok"

(***************************************************************************)
(* C9                                                                      *)
(***************************************************************************)
\* C9 as claimed: Quit reports no error to its caller in any state.
C9_QuitNeverFails ==
    (Returned /\ ret.op = "Quit") => ret.err = NoErr

\* C9, amended: Quit drops the error of writing QUIT and returns the result
\* of closing the control connection: no error iff the close succeeded.
C9_QuitReturnsClose ==
    (Returned /\ ret.op = "Quit") =>
        /\ Cardinality(Steps("cclose")) = 1
        /\ \A i \in Steps("cclose") :
              /\ ret.err = NoErr <=> ret.trace[i].k = "ok"
              /\ ret.trace[i].k = "fail" => ret.err = Err("closed", 0, <<>>)

\* C9 reached: the write of QUIT failed, the close succeeded, Quit returned nil.
C9_Witness ==
    /\ Returned /\ ret.op = "Quit" /\ ret.err = NoErr
    /\ ret.trace[1].ev = "write" /\ ret.trace[1].k = "fail"

(***************************************************************************)
(* C10                                                                     *)
(***************************************************************************)
\* The first reply read after dialing matched 220.
GreetingMatched ==
    /\ Steps("decode") # {}
    /\ ret.trace[Least(Steps("decode"))].k = "nil"
    /\ ret.trace[Least(Steps("decode"))].code = StatusReady

\* C10: Connect returns a session only when the first reply read after
\* dialing matches 220; when that read fails or the code does not match it
\* writes QUIT, closes the control connection, returns no session and
\* returns the error of the read.
C10_Connect ==
    (Returned /\ ret.op = "Connect") =>
        /\ have <=> GreetingMatched
        /\ have => ret.err = NoErr /\ ctrl = "open" /\ Writes("QUIT") = {}
        /\ (ret.trace[1].k = "ok" /\ ~GreetingMatched) =>
              /\ ~have /\ ctrl = "closed"
              /\ FirstErrorReturned
              /\ \E w \in Writes("QUIT") : \E c \in Steps("cclose") :
                    /\ w < c
                    /\ \A j \in Steps("line") \cup Steps("decode") : j < w

\* C10 reached: the greeting was 550; QUIT written, connection closed, no
\* session, the UnexpectedStatusCode returned.
C10_Witness ==
    /\ Returned /\ ret.op = "Connect" /\ ~have /\ ctrl = "closed"
    /\ ret.err = Err("unexpected", 550, <<>>)
    /\ Writes("QUIT") # {}

(***************************************************************************)
(* C11                                                                     *)
(***************************************************************************)
\* The first three characters of `line` are the digits of an integer >= 100.
ThreeDigitCode(line) ==
    /\ \A i \in 1..3 : IsDigit(line[i])
    /\ line[1] # "0"

CodeOf(line) == DigitVal(line[1]) * 100 + DigitVal(line[2]) * 10 + DigitVal(line[3])

\* C11: decoding a line fails as malformed when the line has fewer than 4
\* characters or its 4th is neither space nor hyphen; otherwise as an invalid
\* code when the first 3 characters are not an integer >= 100; otherwise it
\* yields that code, continued = (4th character is a hyphen) and the message
\* from the 5th character on.
C11_Grammar ==
    app.fn = "parseCodeLine" =>
        LET line == app.arg[1]
        IN  IF Len(line) < 4 \/ line[4] \notin {" ", "-"}
            THEN app.val.err.kind = "short"
            ELSE IF ~ThreeDigitCode(line)
            THEN app.val.err.kind = "invalidcode"
            ELSE /\ app.val.err.kind \in {"nil", "unexpected"}
                 /\ app.val.code = CodeOf(line)
                 /\ app.val.continued = (line[4] = "-")
                 /\ app.val.message = SubSeq(line, 5, Len(line))

\* C11 reached: a continuation line with a message was decoded.
C11_Witness ==
    /\ app.fn = "parseCodeLine" /\ app.val.err = NoErr
    /\ app.val.continued /\ app.val.message # <<>>

(***************************************************************************)
(* C12                                                                     *)
(***************************************************************************)
\* Code c is in the family that e names.
InFamily(c, e) ==
    \/ e \in 1..9 /\ c \div 100 = e
    \/ e \in 10..99 /\ c \div 10 = e
    \/ e \in 100..999 /\ c = e
    \/ e \notin 1..999

\* C12: decoding a well-formed line with code c succeeds iff c is in the
\* family of the expected value (any code when that is outside 1..999); a
\* mismatch fails with the unexpected-code error and still returns the code
\* and message.
C12_Family ==
    (app.fn = "parseCodeLine" /\ app.val.err.kind \notin {"short", "invalidcode"}) =>
        LET line == app.arg[1]
            e == app.arg[2]
        IN  /\ app.val.err = NoErr <=> InFamily(CodeOf(line), e)
            /\ app.val.err # NoErr =>
                  /\ app.val.err = Err("unexpected", CodeOf(line), SubSeq(line, 5, Len(line)))
                  /\ app.val.code = CodeOf(line)
                  /\ app.val.message = SubSeq(line, 5, Len(line))

\* C12 reached: a code of the tens family 12 matched, and one did not.
C12_Witness ==
    /\ app.fn = "parseCodeLine" /\ app.arg[2] = 12
    /\ app.val.err = NoErr /\ app.val.code = 122

(***************************************************************************)
(* C13                                                                     *)
(***************************************************************************)
Has(str, c) == \E i \in 1..Len(str) : str[i] = c

\* The comma-separated elements between the first "(" and the first ")".
Inside(msg) == Split(SubSeq(msg, Index(msg, "(") + 2, Index(msg, ")")), ",")

\* C13: for every reply to PASV, pasv fails or returns a port; it accepts
\* the reply only when its code is 227; it fails with the format error when
\* the message has no "(" or no ")"; otherwise the port is high*256+low of
\* the last two elements between the parentheses.
C13_Pasv ==
    app.fn = "pasv" =>
        LET code == app.arg[1]
            msg == app.arg[2]
        IN  /\ app.val.halt = "run"
            /\ code # StatusPassiveMode => app.val.err # NoErr
            /\ (code = StatusPassiveMode /\ ~(Has(msg, "(") /\ Has(msg, ")"))) =>
                  app.val.err.kind = "pasvformat"
            /\ (code = StatusPassiveMode /\ Has(msg, "(") /\ Has(msg, ")")) =>
                  /\ app.val.err = NoErr
                  /\ Len(Inside(msg)) >= 2
                  /\ app.val.port =
                        Atoi(Inside(msg)[Len(Inside(msg)) - 1]).n * 256
                        + Atoi(Inside(msg)[Len(Inside(msg))]).n

(***************************************************************************)
(* C14                                                                     *)
(***************************************************************************)
Quotes(msg) == {i \in 1..Len(msg) : msg[i] = "\""}

\* C14: for a 257 reply to PWD, CurrentDir returns the text strictly between
\* the first and the last double-quote of the message, or fails with the
\* format error when the message has no such pair (one double-quote, or
\* none); for another code it returns the error of the command cycle and an
\* empty path.
C14_CurrentDir ==
    app.fn = "CurrentDir" =>
        LET code == app.arg[1]
            msg == app.arg[2]
        IN  /\ app.val.halt = "run"
            /\ IF code # StatusPathCreated
               THEN app.val.err = Err("unexpected", code, msg) /\ app.val.path = <<>>
               ELSE IF Cardinality(Quotes(msg)) >= 2
               THEN /\ app.val.err = NoErr
                    /\ app.val.path = SubSeq(msg, Least(Quotes(msg)) + 1,
                                             Greatest(Quotes(msg)) - 1)
               ELSE app.val.err.kind = "pwdformat" /\ app.val.path = <<>>

(***************************************************************************)
(* C15                                                                     *)
(***************************************************************************)
\* The lines the last call read from the data connection, in order.
RECURSIVE LinesRead(_)
LinesRead(trace) ==
    IF trace = <<>> THEN <<>>
    ELSE IF Head(trace).ev = "dread" /\ Head(trace).k = "data"
    THEN <<Head(trace).msg>> \o LinesRead(Tail(trace))
    ELSE LinesRead(Tail(trace))

Parsable(line) == ParseLine(line, StartTime) \notin {Nil, Panicked}

\* One entry per parsable line, in order, and nothing for the others.
RECURSIVE EntriesOf(_)
EntriesOf(lines) ==
    IF lines = <<>> THEN <<>>
    ELSE IF Parsable(Head(lines))
    THEN <<ParseLine(Head(lines), StartTime)>> \o EntriesOf(Tail(lines))
    ELSE EntriesOf(Tail(lines))

\* C15: whatever lines List received on the data connection, it does not
\* abort, an unparsable line contributes no entry to the returned list, and
\* every parsable line contributes exactly one entry, in order.
C15_SilentLines ==
    (ret.op = "List" /\ LinesRead(ret.trace) # <<>>) =>
        /\ halt # "panic"
        /\ ret.entries = EntriesOf(LinesRead(ret.trace))

(***************************************************************************)
(* C16                                                                     *)
(***************************************************************************)
\* The entry has a name and a modification time.
Populated(fdata) == fdata.Name # <<>> /\ fdata.MtimeType # "UNKNOWN_MTIME_TYPE"

\* C16: for every input line ParseLine yields no entry or an entry; for a
\* line given to the Unix-style, VMS or MS-DOS parser (whole or cut short,
\* numeric fields or not) it yields no entry or a fully populated one, never
\* an entry with an empty name or an unknown kind of modification time.
C16_NoPartialEntry ==
    app.fn = "ParseLine" =>
        /\ app.val # Panicked
        /\ (app.arg # <<>> /\ app.arg[1] # "+") => (app.val = Nil \/ Populated(app.val))

(***************************************************************************)
(* C17                                                                     *)
(***************************************************************************)
UnixFirst == {"b", "c", "d", "l", "p", "s", "-"}

\* The positions (from 0) after the first character where buf has a ';'.
Semicolons(buf) == {k \in 1..(Len(buf) - 1) : At(buf, k) = ";"}

\* What the dispatch of C17 yields when `vms` tells the VMS lines.
Dispatched(buf, vms, index) ==
    IF Len(buf) < 2 THEN Nil
    ELSE IF At(buf, 0) = "+" THEN parseEPLF(buf)
    ELSE IF At(buf, 0) \in UnixFirst THEN parseUNIXStyle(buf, StartTime)
    ELSE IF vms THEN parseMultinet(buf, index)
    ELSE IF IsDigit(At(buf, 0)) THEN parseMSDOS(buf)
    ELSE Nil

\* C17 as stated: ParseLine fails for a line shorter than 2 characters, else
\* it gives the line to the first sub-parser that matches: '+' EPLF; one of
\* b c d l p s - Unix-style; a ';' anywhere after the first character VMS
\* (before a leading digit is looked at); a leading digit MS-DOS; else no entry.
C17_AnySemicolon ==
    app.fn = "ParseLine" =>
        app.val = Dispatched(app.arg, Semicolons(app.arg) # {},
                             IF Semicolons(app.arg) # {} THEN Least(Semicolons(app.arg)) ELSE 0)

\* C17, amended: as above, but the VMS lines are those whose first ';' is after
\* the first character: a line that begins with ';' is never a VMS line.
C17_Dispatch ==
    app.fn = "ParseLine" =>
        app.val = Dispatched(app.arg,
                             Semicolons(app.arg) # {} /\ At(app.arg, 0) # ";",
                             IF Semicolons(app.arg) # {} THEN Least(Semicolons(app.arg)) ELSE 0)

\* A line with a leading digit and a ';' was parsed as a VMS line.
C17_Witness ==
    /\ app.fn = "ParseLine"
    /\ Len(app.arg) >= 2 /\ IsDigit(app.arg[1]) /\ Semicolons(app.arg) # {}
    /\ app.val \notin {Nil, Panicked}
    /\ app.val.Name = Chars("00README.TXT")
    /\ app.val.MtimeType = "REMOTE_MINUTE_MTIME_TYPE"

(***************************************************************************)
(* C18                                                                     *)
(***************************************************************************)
\* The entry of the applied guessTime, taken in `year`.
InYear(year) ==
    getMtime(year, app.arg.month, app.arg.mday, app.arg.hour, app.arg.minute, 0)

\* How long before the clock that is, in seconds.
Age(year) == Since(app.arg.now.Unix, InYear(year))

Window == 350 * 86400

FirstChar == Chars(app.arg.f.head[1])[1]

\* The flags and the size of the entry are those of the fields of the line.
FlagsAndSize ==
    /\ app.val.Size = app.arg.f.size.n
    /\ app.val.TryCwd <=> FirstChar \in {"d", "l"}
    /\ app.val.TryRetr <=> FirstChar \in {"-", "l"}

BareYear ==
    /\ app.val.MtimeType = "REMOTE_DAY_MTIME_TYPE"
    /\ app.val.Mtime = getMtime(app.arg.f.when.year, app.arg.f.month.n, app.arg.f.mday.n, 0, 0, 0)

\* The text after the one space that ends the time-or-year token.
AfterWhen == app.arg.lead \o Chars(app.arg.f.name)

\* The line is a symbolic link with a target.
Linked == FirstChar = "l" /\ Arrows(AfterWhen) # {}

LinkName == IF Linked THEN Slice(AfterWhen, 0, FirstArrow(AfterWhen)) ELSE AfterWhen

\* C19 as stated: for every line laid out as permissions, link count, owner,
\* optional group, size, month, day, time-or-year, name (also NetPresenz and
\* NetWare), the size is the number before the month, the name is all the
\* text after the time-or-year token without surrounding extra spaces, tryCwd
\* iff the first character is d or l, tryRetr iff it is - or l, and a
\* time-or-year token that is not H:MM or HH:MM is a bare year, at midnight.
C19_Fields ==
    app.fn = "parseUNIXStyle" =>
        /\ app.val # Panicked
        /\ FlagsAndSize
        /\ app.val.Name = Chars(app.arg.f.name)
        /\ app.arg.f.when.year >= 0 => BareYear

\* C19, amended: size and flags as stated; the name is the text after the one
\* space that ends the time-or-year token, further spaces included, except
\* that a symbolic link keeps only what precedes its first " -> " (the rest
\* being the link target) and that a NetWare line (second character a space
\* or '[') has a name of more than 3 characters trimmed; a token of 4
\* characters or more that is not H:MM or HH:MM is a bare year at midnight,
\* H:MM and HH:MM give a time to the minute, and at a shorter token the scan
\* stops: no year, no name.
C19_UnixFields ==
    app.fn = "parseUNIXStyle" =>
        /\ app.val # Panicked
        /\ FlagsAndSize
        /\ IF Len(app.arg.f.when.text) < 4
           THEN app.val.MtimeType = "UNKNOWN_MTIME_TYPE" /\ app.val.Name = <<>>
           ELSE /\ IF app.arg.f.when.year >= 0 THEN BareYear
                   ELSE /\ app.val.MtimeType = "REMOTE_MINUTE_MTIME_TYPE"
                        /\ app.val.Mtime = guessTime(StartTime, app.arg.f.month.n,
                                                     app.arg.f.mday.n, app.arg.f.when.hour,
                                                     app.arg.f.when.minute)
                /\ app.val.Name = IF Len(app.arg.f.head[1]) = 1 /\ Len(LinkName) > 3
                                  THEN Trim(LinkName, Blank) ELSE LinkName
                /\ app.val.LinkDest = IF Linked
                                      THEN Slice(AfterWhen, FirstArrow(AfterWhen) + 4,
                                                 Len(AfterWhen))
                                      ELSE <<>>

\* A line with a group was parsed: its size is the token before the month,
\* not the group, and its name has kept the spaces before it.
C19_Witness ==
    /\ app.fn = "parseUNIXStyle"
    /\ app.arg.f.head = <<"crw-rw-rw-", "1", "root", "15000">>
    /\ app.val.Size = 4356349
    /\ app.arg.lead = <<" ", " ", " ">>
    /\ app.val.Name = <<" ", " ", " ">> \o Chars("README")

(***************************************************************************)
(* C20                                                                     *)
(***************************************************************************)
\* The name field of the VMS line that was parsed, and whether it ends in ".DIR".
VMSName == Chars(app.arg.f.name)

EndsInDIR == Len(VMSName) >= 4 /\ SubSeq(VMSName, Len(VMSName) - 3, Len(VMSName)) = Chars(".DIR")

\* The entry of a VMS line whose name is a directory's iff `dir`.
VMSEntry(dir) ==
    /\ app.val \notin {Nil, Panicked}
    /\ app.val.Name = IF dir THEN SubSeq(VMSName, 1, Len(VMSName) - 4) ELSE VMSName
    /\ app.val.TryCwd = dir
    /\ app.val.TryRetr = ~dir
    /\ app.val.Size = 0
    /\ app.val.MtimeType = "REMOTE_MINUTE_MTIME_TYPE"
    /\ app.val.Mtime = getMtime(app.arg.f.date.year, app.arg.f.date.month, app.arg.f.date.mday,
                                app.arg.f.time.hour, app.arg.f.time.minute, 0)

\* C20 as stated: for every well-formed VMS line the name is the text before
\* the first ';' without a ".DIR" that ends it; tryCwd is set iff that suffix
\* was there and tryRetr iff not; the size is 0; the mtime is the day, month,
\* year, hour and minute of the line, to the minute, with zero seconds even
\* when the line has ":ss".
C20_VMS ==
    app.fn = "parseMultinet" => VMSEntry(EndsInDIR)

\* C20, amended: as above, but ".DIR" is taken off (and tryCwd set) only when
\* at least one character precedes it in the name: the line of a file named
\* ".DIR" keeps that name and has tryRetr set.
C20_Multinet ==
    app.fn = "parseMultinet" => VMSEntry(EndsInDIR /\ Len(VMSName) > 4)

\* A directory line with seconds was parsed.
C20_Witness ==
    /\ app.fn = "parseMultinet"
    /\ app.arg.f.name = "CORE.DIR" /\ app.arg.f.time.text = "03:33:12"
    /\ app.val.Name = Chars("CORE") /\ app.val.TryCwd
    /\ app.val.Mtime = getMtime(1996, 2, 29, 3, 33, 0)
(***************************************************************************)
(* C21: an MS-DOS line resolves its year y >= 0 to y+2000 below 50, to      *)
(* y+1900 from 50 below 1000 and to y otherwise; its hour h to (h+12) mod   *)
(* 24 under the 'P' marker and to h under 'A'; "<DIR>" sets TryCwd with     *)
(* size 0 and no TryRetr, otherwise the token is the size and TryRetr is    *)
(* set; the rest of the line is the name.                                   *)
(***************************************************************************)
ResolvedYear(y) == IF y < 50 THEN y + 2000 ELSE IF y < 1000 THEN y + 1900 ELSE y

ResolvedHour(h, marker) == IF marker = "PM" THEN (h + 12) % 24 ELSE h

IsDir == app.arg.f.item.text = "<DIR>"

\* C21: every MS-DOS line of the layout parses to the entry the rules give.
C21_MSDOS ==
    app.fn = "parseMSDOS" =>
        /\ app.val.Name = Chars(app.arg.f.name)
        /\ app.val.TryCwd = IsDir
        /\ app.val.TryRetr = ~IsDir
        /\ app.val.Size = app.arg.f.item.n
        /\ app.val.MtimeType = "REMOTE_MINUTE_MTIME_TYPE"
        /\ app.val.Mtime = getMtime(ResolvedYear(app.arg.f.year.n), 4, 27,
                                    ResolvedHour(app.arg.f.hour.n, app.arg.f.marker),
                                    app.arg.f.minute.n, 0)

\* A directory dated 12:xxPM in the year "50" was parsed: 1950, hour 0.
C21_Witness ==
    /\ app.fn = "parseMSDOS"
    /\ app.arg.f.year.text = "50"
    /\ app.arg.f.hour.n = 12
    /\ app.arg.f.marker = "PM"
    /\ IsDir
    /\ app.val.TryCwd
    /\ app.val.Mtime = getMtime(1950, 4, 27, 0, app.arg.f.minute.n, 0)

(***************************************************************************)
(* C22: an EPLF line sets TryCwd by '/', TryRetr by 'r', the size by        *)
(* 's<digits>', the local modification time by 'm<seconds>', the full id by *)
(* 'i<opaque>' (exactly the characters between the tag and the comma,       *)
(* wherever the fact stands), the name by the text after the tab, and gives *)
(* no entry when an 's' or 'm' payload is not an integer.                   *)
(***************************************************************************)
Facts == { app.arg.fs[k] : k \in DOMAIN app.arg.fs }

Tagged(tag) == { f \in Facts : f.tag = tag }

BadPayload == \E f \in Facts : f.tag \in {"s", "m"} /\ ~f.ok

\* What the facts of the line say, but for the id.
EPLFPlain ==
    /\ app.val.Name = Chars(app.arg.name)
    /\ app.val.TryCwd = (Tagged("/") # {})
    /\ app.val.TryRetr = (Tagged("r") # {})
    /\ \A f \in Tagged("s") : app.val.Size = f.n
    /\ \A f \in Tagged("m") : /\ app.val.Mtime = UnixOf(f.n)
                               /\ app.val.MtimeType = "LOCAL_MTIME_TYPE"

\* What the 'i' fact of the line says.
EPLFId ==
    \A f \in Tagged("i") : /\ app.val.IdType = "FULL_ID_TYPE"
                           /\ app.val.Id = Chars(f.text)

\* C22: every EPLF line parses to what its facts say, and to no entry when a
\* size or time payload is not an integer.
C22_EPLF ==
    app.fn = "parseEPLF" =>
        IF BadPayload THEN app.val = Nil
        ELSE /\ app.val \notin {Nil, Panicked}
             /\ EPLFPlain
             /\ EPLFId

(***************************************************************************)
(* C23: the completion status of a Retr transfer is consumed from the       *)
(* control connection exactly once before the reply to the next command is  *)
(* read, whether the caller reads the response to its end or closes it      *)
(* without reading, and however often Read is called at the end.            *)
(***************************************************************************)
\* The response was closed, the server (still up) has ended the transfer and
\* sent its completion reply.
TransferOver ==
    /\ Returned /\ ret.op = "Close"
    /\ xfer.st = "done" /\ peer = "up"

\* C23: when Close has returned, the Reads and the Close of the response
\* have together decoded one status, the completion status.
C23_StatusOnce == TransferOver => resp.nstatus = 1

(***************************************************************************)
(* C24: when the first line read for a reply starts with two spaces, two    *)
(* further lines are read (three in all) and the status decoded and         *)
(* returned is the last of them; otherwise one line is read and decoded.    *)
(***************************************************************************)
\* The ReadLine calls made, and the lines they took from the connection.
LineReads == {i \in DOMAIN app.val.s.trace : app.val.s.trace[i].ev = "line"}

Consumed == Len(app.arg.inq) - Len(app.val.s.inq)

Indented == HasPrefix(app.arg.inq[1], <<" ", " ">>)

\* The reader returned what line k of the connection decodes to, logged as
\* the one decoding made.
DecodedLine(k) ==
    /\ [code |-> app.val.code, continued |-> app.val.continued,
        message |-> app.val.message, err |-> app.val.err]
         = parseCodeLine(app.arg.inq[k], app.arg.expectCode)
    /\ \E i \in DOMAIN app.val.s.trace :
          /\ app.val.s.trace[i].ev = "decode" /\ app.val.s.trace[i].n = k
          /\ \A j \in DOMAIN app.val.s.trace :
                app.val.s.trace[j].ev = "decode" => j = i

\* The reader was called with a first line to read and has returned.
ReadReturned ==
    /\ app.fn = "MyreadCodeLine"
    /\ app.arg.inq # <<>>
    /\ app.val.s.halt = "run"

\* C24: after an indented first line the reader calls ReadLine twice more and
\* decodes the third line (it fails with the read error when the connection
\* ends before it); after any other first line it reads and decodes that
\* line alone.
C24_Indented ==
    ReadReturned =>
        IF Indented
        THEN /\ Cardinality(LineReads) = 3
             /\ IF Len(app.arg.inq) >= 3
                THEN Consumed = 3 /\ DecodedLine(3)
                ELSE /\ Consumed = Len(app.arg.inq)
                     /\ app.val.err = IOErr /\ app.val.code = 0
        ELSE /\ Cardinality(LineReads) = 1
             /\ Consumed = 1 /\ DecodedLine(1)

\* An indented line, a second line and "226 T" were read, the fourth line
\* was left.
C24_Witness ==
    /\ ReadReturned /\ Indented
    /\ Len(app.arg.inq) = 4 /\ Len(app.val.s.inq) = 1
    /\ app.arg.inq[2] = Chars("ok")
    /\ app.arg.inq[3] = Chars("226 T")
    /\ app.val.code = StatusClosingDataConnection /\ app.val.err = NoErr

(***************************************************************************)
(* C25: the command cycle reads a further reply only when 257 is expected   *)
(* and 230 was decoded, until a code other than 230 is decoded or a read    *)
(* fails, and returns the last result; for every other expected code one    *)
(* reply is read per command written; after a failed write none is read.    *)
(***************************************************************************)
\* The operations made of command cycles, and those that expect 257.
CmdOps ==
    {"Login", "ChangeDir", "ChangeDirToParent", "CurrentDir", "Rename", "Delete",
     "MakeDir", "RemoveDir", "NoOp"}

PathOps == {"CurrentDir", "MakeDir"}

\* The steps of the cycle of the command written at step i.
Cycle(i) ==
    {j \in (i + 1)..Len(ret.trace) : \A m \in (i + 1)..j : ret.trace[m].ev # "write"}

\* A ReadLine follows step j in the cycle of the command written at step i.
ReadsOn(i, j) == \E m \in Cycle(i) : m > j /\ ret.trace[m].ev = "line"

C25_Cycle(i) ==
    IF ret.trace[i].k = "fail"
    THEN Cycle(i) = {} /\ ret.err = IOErr
    ELSE /\ ReadsOn(i, i)
         /\ \A j \in Cycle(i) :
               ret.trace[j].ev = "decode" =>
                  (ReadsOn(i, j) <=>
                     (ret.op \in PathOps /\ ret.trace[j].code = StatusLoggedIn))

\* The error a thin wrapper returns is that of the last decoding, or the
\* read error when a read failed after it.
C25_Last ==
    LET last == ret.trace[Len(ret.trace)]
    IN  CASE last.ev = "decode" ->
                 /\ ret.err.kind = last.k
                 /\ ret.err # NoErr => ret.err.code = last.code
          [] last.ev = "line" -> last.k = "fail" /\ ret.err = IOErr
          [] OTHER -> last.ev = "write" /\ last.k = "fail"

\* C25: in every returned operation made of command cycles, each cycle reads
\* on after a decoding exactly when 257 was expected and 230 decoded.
C25_Loop257 ==
    (Returned /\ ret.op \in CmdOps) =>
        /\ \A i \in Steps("write") : C25_Cycle(i)
        /\ ret.op \in {"MakeDir", "NoOp", "Delete", "RemoveDir", "ChangeDir",
                       "ChangeDirToParent"} => C25_Last

\* MakeDir decoded a 230 (left unread by an earlier call) and then the 257 it
\* returned with.
C25_Witness ==
    /\ Returned /\ ret.op = "MakeDir" /\ ret.err = NoErr
    /\ Cardinality(Steps("decode")) = 2
    /\ ret.trace[Least(Steps("decode"))].code = StatusLoggedIn
    /\ ret.trace[Greatest(Steps("decode"))].code = StatusPathCreated

(***************************************************************************)
(* C26: List, Retr and Stor write PASV, read its reply, dial the data       *)
(* connection to the negotiated port, write the transfer command and read   *)
(* the preamble status, in this order; the transfer command is not written  *)
(* when the negotiation or the dial failed, and that error is returned.     *)
(***************************************************************************)
TransferOps == {"List", "Retr", "Stor"}

\* The transfer command of the operation.
TransferCmd ==
    CASE ret.op = "List" -> "LIST" [] ret.op = "Retr" -> "RETR" [] OTHER -> "STOR"

\* The writes of the transfer command, failed ones too.
TransferTries == {i \in Steps("write") : ret.trace[i].cmd \in TransferCmds}

\* The reply to PASV was read and decoded in the steps 2..(d - 1), the last
\* of them the decoding of a 227 with the port in its message.
PasvRead(d) ==
    /\ d > 2
    /\ \A m \in 2..(d - 1) : ret.trace[m].ev \in {"line", "decode"}
    /\ ret.trace[d - 1].ev = "decode"
    /\ ret.trace[d - 1].code = StatusPassiveMode
    /\ ret.trace[d - 1].msg = PasvMsg
    /\ Cardinality({m \in 2..(d - 1) : ret.trace[m].ev = "decode"}) = 1

\* The negotiation failed: the error is that of reading or decoding the
\* reply to PASV, or of its format.
NegotiationError ==
    LET last == ret.trace[Len(ret.trace)]
    IN  /\ last.ev \in {"line", "decode"}
        /\ IF last.ev = "line" THEN last.k = "fail" /\ ret.err = IOErr
           ELSE IF last.code = StatusPassiveMode THEN ret.err = Err("pasvformat", 0, <<>>)
           ELSE ret.err.kind = last.k /\ ret.err # NoErr

\* C26: in every returned List, Retr and Stor the set-up events come in this
\* order, a dial only after PASV was written and its reply read, the transfer
\* command only after a dial that worked; without it the error returned is
\* that of the negotiation or of the dial.
C26_Order ==
    (Returned /\ ret.op \in TransferOps) =>
        /\ ret.trace[1].ev = "write" /\ ret.trace[1].cmd = "PASV"
        /\ Cardinality(Steps("dial")) <= 1
        /\ \A d \in Steps("dial") :
              /\ ret.trace[1].k = "ok"
              /\ PasvRead(d) /\ ret.trace[d].n = 1 * 256 + 2
        /\ Cardinality(TransferTries) <= 1
        /\ \A t \in TransferTries :
              /\ ret.trace[t].cmd = TransferCmd
              /\ ret.trace[t - 1].ev = "dial" /\ ret.trace[t - 1].k = "ok"
        /\ \A t \in TransferWrites :
              /\ t < Len(ret.trace) /\ ret.trace[t + 1].ev = "line"
              /\ \A e \in Steps("dread") \cup Steps("copy") :
                    \E j \in Steps("decode") : t < j /\ j < e
        /\ TransferTries = {} =>
              IF Steps("dial") # {}
              THEN ret.trace[Len(ret.trace)].ev = "dial" /\ ret.err = Err("dial", 0, <<>>)
              ELSE NegotiationError

(***************************************************************************)
(* C27: a thin wrapper that gets a well-formed single-line reply outside    *)
(* its expected code returns the error with the observed code and message,  *)
(* has written one command and read one reply, leaves the control           *)
(* connection open, and the next operation reads the reply to its own       *)
(* command.                                                                 *)
(***************************************************************************)
\* The wrapper returned the error of the one reply it read, the session
\* left in step.
ReturnedRefusal ==
    /\ halt = "run"
    /\ Len(ret.trace) = 3
    /\ ret.err = Err("unexpected", ret.trace[3].code, ret.trace[3].msg)
    /\ ctrl = "open"
    /\ inq = <<>>

\* The first reply decoded by the call that follows a refused thin wrapper
\* answers the first command of that call.
NextInStep ==
    (ret.after = "refused" /\ ret.op # "none" /\ Steps("decode") # {}) =>
        /\ ~Stale(Least(Steps("decode")))
        /\ ret.trace[Least(Steps("decode"))].n = 1

\* C27 as stated: for every thin wrapper and every unexpected code.
C27_Fatal == (RefusedThin => ReturnedRefusal) /\ NextInStep

\* MakeDir expects 257 and decoded 230: its command cycle reads on.
ReadsOn230 == ret.op = "MakeDir" /\ ret.trace[3].code = StatusLoggedIn

\* C27, amended: for every thin wrapper and every unexpected code but MakeDir
\* with 230, where the command cycle reads a further reply.
C27_FatalBut230 ==
    /\ (RefusedThin /\ ~ReadsOn230) => ReturnedRefusal
    /\ (RefusedThin /\ ReadsOn230) => (halt = "blocked" \/ Len(ret.trace) > 3)
    /\ NextInStep

\* After a refused thin wrapper, NoOp has read the reply to NOOP and succeeded.
C27_Witness ==
    /\ Returned /\ ret.after = "refused"
    /\ ret.op = "NoOp" /\ ret.err = NoErr
    /\ Steps("decode") # {}

(***************************************************************************)
(* C28: Stor closes the data connection after the copy and before it reads  *)
(* the completion status; it succeeds iff the copy succeeded and the status *)
(* read matched 226; after a failed copy it returns the copy error, the     *)
(* data connection closed.                                                  *)
(***************************************************************************)
\* Stor has returned and had copied, at step Copy.
Stored == Returned /\ ret.op = "Stor" /\ Steps("copy") # {}

Copy == Least(Steps("copy"))

\* The steps after the data connection was closed.
AfterClose == (Copy + 2)..Len(ret.trace)

\* The completion status was read after the close and matched 226.
Matched226 ==
    /\ AfterClose # {}
    /\ ret.trace[Len(ret.trace)].ev = "decode"
    /\ ret.trace[Len(ret.trace)].k = "nil"
    /\ ret.trace[Len(ret.trace)].code = StatusClosingDataConnection

\* C28: in every returned Stor that copied, the close of the data connection
\* follows the copy at once, only the reading of one status follows the
\* close, and the result is as the copy and that status make it.
C28_StorOrder ==
    Stored =>
        /\ Cardinality(Steps("copy")) = 1 /\ Cardinality(Steps("dclose")) = 1
        /\ Copy < Len(ret.trace) /\ ret.trace[Copy + 1].ev = "dclose"
        /\ data = "closed"
        /\ AfterTransferWrite # {} /\ Least(AfterTransferWrite) = Copy - 1
        /\ \A j \in AfterClose : ret.trace[j].ev \in {"line", "decode"}
        /\ Cardinality({j \in AfterClose : ret.trace[j].ev = "decode"}) <= 1
        /\ ret.err = NoErr <=> (ret.trace[Copy].k = "ok" /\ Matched226)
        /\ IF ret.trace[Copy].k = "ok"
           THEN AfterClose # {} /\ ret.trace[Copy + 2].ev = "line"
           ELSE AfterClose = {} /\ ret.err = Err("copy", 0, <<>>)

\* Stor has succeeded: copy, close, "226" read.
C28_Witness ==
    /\ Stored /\ ret.err = NoErr /\ Matched226
    /\ ret.trace[Len(ret.trace)].cmd = "done"

(***************************************************************************)
(* C29: guessTime always finds a candidate, the smallest year from the year *)
(* before the current one whose timestamp is less than 350 days before      *)
(* now; the result is less than 350 days old and not later than now plus a  *)
(* small tolerance.                                                         *)
(***************************************************************************)
\* The years guessTime tries, in this order.
Candidates == (app.arg.now.Year - 1)..(app.arg.now.Year + 99)

\* The tolerance: what a year can be longer than the window.
Tolerance == (366 - 350) * 86400

\* How long before the clock the result is, in seconds (negative: after it).
ResultAge == Since(app.arg.now.Unix, app.val)

====
